---- MODULE Spec2Model ----
(***************************************************************************)
(* StoryStash: the in-memory store (MemStorage), the HTTP handlers that    *)
(* call it (registerRoutes) and the notification matcher                   *)
(* (NotificationService), as a state machine.                              *)
(*                                                                         *)
(* A JavaScript Map<number, Row> is a function from the set of its keys to *)
(* rows.  Keys are handed out by counters that only grow, and Map.set on a *)
(* present key keeps its place, so iteration (insertion) order is          *)
(* ascending key order: Array.from(map.values()).find(p) is the row with   *)
(* the least key satisfying p.                                             *)
(***************************************************************************)
EXTENDS Integers, Sequences, FiniteSets, TLC

\* ---------------------------------------------------------------- bounds
\* rows ever created in one link collection (favorites, recently viewed, follows)
MaxRows == 3
\* rows ever created in the three following collections together
MaxFollows == 2
\* values of the wall clock (new Date()): 0..MaxClock
MaxClock == 1
\* books ever created
MaxBooks == 5
\* users ever created
MaxUsers == 3
\* notifications ever created
MaxNotifications == 3
\* consecutive runs of the matcher that are told apart
MaxRuns == 3
\* length of one response of the external book source
MaxExt == 2
\* rows ever created, all collections together, where every kind of row is
\* created side by side
MaxCreated == 3
\* authors, and series, ever created after the seeded ones
MaxNamed == 2
\* requests that the server is handling at the same time
MaxRequests == 2
\* books in the store while the 3-hourly job runs
MaxPicked == 2

\* ------------------------------------------------------ program constants
\* routes: "if (books.length < 5)" decides whether the external source is asked
SupplementBelow == 5
\* MemStorage constructor: five sample authors and five sample series
SeedAuthors == 5
SeedSeries == 5
\* MemStorage.getRecentlyViewed: "limit = 10"
RecentlyViewedLimit == 10

VARIABLES
  users, books, userPreferences, favorites, notifications, recentlyViewed,
  authors, bookSeries, followingAuthors, followingSeries, followingCategories,
  userId, bookId, userPreferencesId, favoriteId, notificationId,
  recentlyViewedId, authorId, bookSeriesId, followingAuthorId,
  followingSeriesId, followingCategoryId,
  serviceStorage, now, last,
  requests

userVars == <<users, userId>>
prefVars == <<userPreferences, userPreferencesId>>
bookVars == <<books, bookId>>
favVars == <<favorites, favoriteId>>
notifVars == <<notifications, notificationId>>
viewVars == <<recentlyViewed, recentlyViewedId>>
authorVars == <<authors, authorId>>
seriesVars == <<bookSeries, bookSeriesId>>
followVars == <<followingAuthors, followingAuthorId, followingSeries,
                followingSeriesId, followingCategories, followingCategoryId>>

vars == <<users, books, userPreferences, favorites, notifications,
          recentlyViewed, authors, bookSeries, followingAuthors,
          followingSeries, followingCategories, userId, bookId,
          userPreferencesId, favoriteId, notificationId, recentlyViewedId,
          authorId, bookSeriesId, followingAuthorId, followingSeriesId,
          followingCategoryId, serviceStorage, now, last, requests>>

\* ------------------------------------------------------------ Map helpers
\* new Map()
EmptyMap == [k \in {} |-> k]

\* map.set(k, v)
MapSet(m, k, v) == [i \in DOMAIN m \cup {k} |-> IF i = k THEN v ELSE m[i]]

\* map.delete(k)
MapDelete(m, k) == [i \in DOMAIN m \ {k} |-> m[i]]

\* the first key in iteration order among the keys S
FirstKey(S) == CHOOSE k \in S : \A j \in S : k <= j

\* the JavaScript value undefined
Undefined == [undefined |-> TRUE]

\* Array.from(map.values()): the rows in iteration order
RECURSIVE KeysInOrder(_)
KeysInOrder(S) ==
  IF S = {} THEN <<>>
  ELSE LET k == FirstKey(S) IN <<k>> \o KeysInOrder(S \ {k})

MapValues(m) == LET ks == KeysInOrder(DOMAIN m) IN [i \in 1..Len(ks) |-> m[ks[i]]]

\* what a call reports: its name, its arguments, its result, and whether a row
\* for its (userId, key) pair was stored when it was called
Call(op, args, ret, had) == [op |-> op, args |-> args, ret |-> ret, had |-> had]

NoArgs == [none |-> TRUE]

\* input values: the user ids and the target ids (book, author, series) that
\* callers pass
Keys == {1, 2}

\* ------------------------------------------------------------------ Init
\* MemStorage constructor: empty maps, counters at 1, then createUser for the
\* demo user (which creates its default preferences), five createAuthor and
\* five createBookSeries calls.  NotificationService: storage = null.
SeedAuthorNames ==
  <<"Dr. Seuss", "J.K. Rowling", "Roald Dahl", "Beverly Cleary", "Rick Riordan">>

SeedSeriesNames ==
  <<"Harry Potter", "Percy Jackson & the Olympians", "Chronicles of Narnia",
    "Diary of a Wimpy Kid", "The Magic Tree House">>

DefaultPreferences(id, uid) ==
  [id |-> id, userId |-> uid, preferredCategories |-> <<>>,
   preferredAgeRanges |-> <<>>, notificationsEnabled |-> TRUE]

Init ==
  /\ users = MapSet(EmptyMap, 1, [id |-> 1, username |-> "demo", password |-> "password"])
  /\ userId = 2
  /\ userPreferences = MapSet(EmptyMap, 1, DefaultPreferences(1, 1))
  /\ userPreferencesId = 2
  /\ books = EmptyMap
  /\ bookId = 1
  /\ favorites = EmptyMap
  /\ favoriteId = 1
  /\ notifications = EmptyMap
  /\ notificationId = 1
  /\ recentlyViewed = EmptyMap
  /\ recentlyViewedId = 1
  /\ authors = [i \in 1..SeedAuthors |-> [id |-> i, name |-> SeedAuthorNames[i]]]
  /\ authorId = SeedAuthors + 1
  /\ bookSeries = [i \in 1..SeedSeries |-> [id |-> i, name |-> SeedSeriesNames[i]]]
  /\ bookSeriesId = SeedSeries + 1
  /\ followingAuthors = EmptyMap
  /\ followingAuthorId = 1
  /\ followingSeries = EmptyMap
  /\ followingSeriesId = 1
  /\ followingCategories = EmptyMap
  /\ followingCategoryId = 1
  /\ serviceStorage = "null"
  /\ now = 0
  /\ last = Call("constructor", NoArgs, Undefined, FALSE)
  /\ requests = [r \in 1..MaxRequests |-> [at |-> "idle"]]

\* the wall clock read by new Date() moves on between calls
Tick ==
  /\ now < MaxClock
  /\ now' = now + 1
  /\ UNCHANGED <<requests, userVars, prefVars, bookVars, favVars, notifVars, viewVars,
                 authorVars, seriesVars, followVars, serviceStorage, last>>

\* ------------------------------------------------------------- favorites
\* the favorites rows of the pair (userId, bookId)
FavoriteKeys(m, uid, bid) ==
  {k \in DOMAIN m : m[k].userId = uid /\ m[k].bookId = bid}

\* MemStorage.isFavorite: some row has the pair
isFavorite(uid, bid) == FavoriteKeys(favorites, uid, bid) # {}

\* MemStorage.addFavorite: takes the next id and stores the row; the rows
\* already stored are not looked at
addFavoriteRow(favorite) ==
  [id |-> favoriteId, userId |-> favorite.userId, bookId |-> favorite.bookId,
   createdAt |-> now]

addFavorite(favorite) ==
  /\ favoriteId' = favoriteId + 1
  /\ favorites' = MapSet(favorites, favoriteId, addFavoriteRow(favorite))

\* MemStorage.removeFavorite: deletes the first row of the pair, if any
favoriteToRemove(uid, bid) ==
  IF FavoriteKeys(favorites, uid, bid) = {} THEN Undefined
  ELSE favorites[FirstKey(FavoriteKeys(favorites, uid, bid))]

\* (mutant) the id of the deleted row is handed out again
removeFavorite_ReleasesId(uid, bid) ==
  /\ favorites' = IF favoriteToRemove(uid, bid) = Undefined THEN favorites
                  ELSE MapDelete(favorites, favoriteToRemove(uid, bid).id)
  /\ favoriteId' = IF favoriteToRemove(uid, bid) = Undefined THEN favoriteId
                   ELSE favoriteToRemove(uid, bid).id

removeFavorite(uid, bid) ==
  /\ favorites' = IF favoriteToRemove(uid, bid) = Undefined THEN favorites
                  ELSE MapDelete(favorites, favoriteToRemove(uid, bid).id)
  /\ UNCHANGED favoriteId

\* a caller of the store calls addFavorite
CallAddFavorite(favorite) ==
  /\ favoriteId <= MaxRows
  /\ addFavorite(favorite)
  /\ last' = Call("addFavorite", favorite, addFavoriteRow(favorite),
                  isFavorite(favorite.userId, favorite.bookId))
  /\ UNCHANGED <<requests, userVars, prefVars, bookVars, notifVars, viewVars, authorVars,
                 seriesVars, followVars, serviceStorage, now>>

\* a caller of the store calls removeFavorite
CallRemoveFavorite(uid, bid) ==
  /\ removeFavorite(uid, bid)
  /\ last' = Call("removeFavorite", [userId |-> uid, bookId |-> bid],
                  favoriteToRemove(uid, bid) # Undefined, isFavorite(uid, bid))
  /\ UNCHANGED <<requests, userVars, prefVars, bookVars, notifVars, viewVars, authorVars,
                 seriesVars, followVars, serviceStorage, now>>

\* the store's favorites operations called directly, in any order
NextFav ==
  \/ \E uid \in Keys, bid \in Keys : CallAddFavorite([userId |-> uid, bookId |-> bid])
  \/ \E uid \in Keys, bid \in Keys : CallRemoveFavorite(uid, bid)
  \/ Tick

SpecFav == Init /\ [][NextFav]_vars

\* ----------------------------------------------------------------- text
\* A string that the code inspects is a sequence of one-character strings.
\* A character outside ASCII is written by its code point: "U+03A3" is the
\* Greek capital letter sigma.
CapitalPhi == "U+03A6"
CapitalOmega == "U+03A9"
CapitalSigma == "U+03A3"
SmallPhi == "U+03C6"
SmallOmega == "U+03C9"
SmallSigma == "U+03C3"
SmallFinalSigma == "U+03C2"

\* String.prototype.toLowerCase, on the letters used here: the mapping of a
\* letter by itself
LowerChar(c) ==
  CASE c = "A" -> "a" [] c = "B" -> "b" [] c = "C" -> "c" [] c = "D" -> "d"
    [] c = "G" -> "g" [] c = "O" -> "o" [] c = "T" -> "t"
    [] c = CapitalPhi -> SmallPhi [] c = CapitalOmega -> SmallOmega
    [] c = CapitalSigma -> SmallSigma [] OTHER -> c

\* the characters used here that are no cased letters
Uncased == {" ", "-", "%", "0", "1", "2", "3", "4", "5", "6", "7", "8", "9"}

\* the Final_Sigma condition of the Unicode special casing: the letter follows
\* a cased letter and no cased letter follows it (none of the characters used
\* here is case-ignorable)
FinalSigma(str, i) ==
  /\ i > 1
  /\ str[i - 1] \notin Uncased
  /\ ~(i < Len(str) /\ str[i + 1] \notin Uncased)

\* String.prototype.toLowerCase: the lower case mapping of the string, in which
\* a capital sigma at the end of a word becomes the final small sigma
toLowerCase(str) ==
  [i \in 1..Len(str) |->
     IF str[i] = CapitalSigma /\ FinalSigma(str, i) THEN SmallFinalSigma
     ELSE LowerChar(str[i])]

\* String.prototype.includes
includes(str, part) ==
  LET text == str
      sought == part
  IN \E i \in 0..(Len(text) - Len(sought)) :
       \A j \in 1..Len(sought) : text[i + j] = sought[j]

\* parseInt(text) for the request parameters used here: blanks are skipped,
\* then the longest run of decimal digits is read; no digit gives NaN
DigitChars == {"0", "1", "2", "3", "4", "5", "6", "7", "8", "9"}

DigitValue(c) ==
  CASE c = "0" -> 0 [] c = "1" -> 1 [] c = "2" -> 2 [] c = "3" -> 3 [] c = "4" -> 4
    [] c = "5" -> 5 [] c = "6" -> 6 [] c = "7" -> 7 [] c = "8" -> 8 [] c = "9" -> 9

RECURSIVE SkipBlanks(_)
SkipBlanks(str) ==
  IF str # <<>> /\ Head(str) = " " THEN SkipBlanks(Tail(str)) ELSE str

RECURSIVE ReadDigits(_, _)
ReadDigits(str, acc) ==
  IF str # <<>> /\ Head(str) \in DigitChars
  THEN ReadDigits(Tail(str), 10 * acc + DigitValue(Head(str)))
  ELSE acc

parseInt(str) ==
  LET rest == SkipBlanks(str) IN
  IF rest # <<>> /\ Head(rest) \in DigitChars
  THEN [nan |-> FALSE, value |-> ReadDigits(rest, 0)]
  ELSE [nan |-> TRUE, value |-> 0]

isNaN(n) == n.nan

\* decodeURIComponent(text): "%" and two hexadecimal digits become the
\* character with that code (the codes of " ", "F" and "M" here); a "%" that is
\* not followed by two hexadecimal digits throws URIError
HexChars == DigitChars \cup {"A", "B", "C", "D", "E", "F", "a", "b", "c", "d", "e", "f"}

HexValue(c) ==
  CASE c \in DigitChars -> DigitValue(c)
    [] c \in {"A", "a"} -> 10 [] c \in {"B", "b"} -> 11 [] c \in {"C", "c"} -> 12
    [] c \in {"D", "d"} -> 13 [] c \in {"E", "e"} -> 14 [] c \in {"F", "f"} -> 15

CharOfCode(code) ==
  CASE code = 32 -> " " [] code = 70 -> "F" [] code = 77 -> "M"

RECURSIVE decodeURIComponent(_)
decodeURIComponent(str) ==
  IF str = <<>> THEN [threw |-> FALSE, text |-> <<>>]
  ELSE IF Head(str) # "%"
       THEN LET rest == decodeURIComponent(Tail(str)) IN
            [threw |-> rest.threw, text |-> <<Head(str)>> \o rest.text]
  ELSE IF Len(str) < 3 \/ str[2] \notin HexChars \/ str[3] \notin HexChars
       THEN [threw |-> TRUE, text |-> <<>>]
  ELSE LET rest == decodeURIComponent(SubSeq(str, 4, Len(str))) IN
       [threw |-> rest.threw,
        text |-> <<CharOfCode(16 * HexValue(str[2]) + HexValue(str[3]))>> \o rest.text]

\* ----------------------------------------------------------------- books
\* MemStorage.getBook
getBook(id) == IF id \in DOMAIN books THEN books[id] ELSE Undefined

\* MemStorage.getBookByGoogleId on the map m: the first book with the googleId
\* (mutant) the lookup finds nothing
getBookByGoogleId_Never(m, googleId) == Undefined

getBookByGoogleId(m, googleId) ==
  LET found == {k \in DOMAIN m : m[k].googleId = googleId}
  IN IF found = {} THEN Undefined ELSE m[FirstKey(found)]

\* MemStorage.createBook: { ...insertBook, id }
createBookRow(insertBook, id) ==
  [id |-> id, googleId |-> insertBook.googleId, title |-> insertBook.title,
   author |-> insertBook.author, description |-> insertBook.description,
   categories |-> insertBook.categories, ageRange |-> insertBook.ageRange,
   isNew |-> insertBook.isNew]

\* MemStorage.searchBooks: the keys, in iteration order, of the books whose
\* title, author or description contains the query, all in lower case
\* (a null description is the empty text here: "description?." then yields no
\* match for a query with a character, and the empty query matches every title)
searchBooksMatch(book, lowercaseQuery) ==
  \/ includes(toLowerCase(book.title), lowercaseQuery)
  \/ includes(toLowerCase(book.author), lowercaseQuery)
  \/ includes(toLowerCase(book.description), lowercaseQuery)

searchBooks(query) ==
  LET lowercaseQuery == toLowerCase(query)
  IN KeysInOrder({k \in DOMAIN books : searchBooksMatch(books[k], lowercaseQuery)})

\* GET /api/books/search, the loop over the external records: a record whose
\* googleId is stored already is skipped, any other is created at once, so a
\* later record of the same response finds it
RECURSIVE SaveNewBooks(_, _, _)
SaveNewBooks(googleBooks, m, nextId) ==
  IF googleBooks = <<>> THEN [books |-> m, bookId |-> nextId]
  ELSE IF getBookByGoogleId(m, Head(googleBooks).googleId) # Undefined
       THEN SaveNewBooks(Tail(googleBooks), m, nextId)
       ELSE SaveNewBooks(Tail(googleBooks),
                         MapSet(m, nextId, createBookRow(Head(googleBooks), nextId)),
                         nextId + 1)

\* what fetchBooksFromGoogle gives the handler: a list of records, or a throw
Fetched(items) == [threw |-> FALSE, items |-> items]

FetchError == [threw |-> TRUE, items |-> <<>>]

\* GET /api/books/search with the query parameter, the external source
\* answering with one of the given answers.  A missing or empty query (here
\* <<>>) is answered 400.  The external source is asked only when fewer than
\* five local books match; a throw is caught and the local result stands.  The
\* call reports whether the source was asked, how many records it offered and
\* how many of them were stored.
SearchSaved(found, googleBooks) ==
  IF Len(found) < SupplementBelow /\ ~googleBooks.threw
  THEN SaveNewBooks(googleBooks.items, books, bookId)
  ELSE [books |-> books, bookId |-> bookId]

\* (mutant) the handler without the try block around the external call: a
\* throw ends the request with an error response
SearchResponse_NoCatch(found, googleBooks, saved) ==
  IF Len(found) < SupplementBelow /\ googleBooks.threw
  THEN [status |-> 500, body |-> Undefined]
  ELSE [status |-> 200,
        body |-> [i \in 1..Len(found) |-> books[found[i]]]
                 \o [i \in 1..(saved.bookId - bookId) |-> saved.books[bookId + i - 1]]]

\* res.json(books): the local books in the order searchBooks returned them,
\* then the books this request created, in the order it created them
SearchResponse(found, googleBooks, saved) ==
  [status |-> 200,
   body |-> [i \in 1..Len(found) |-> books[found[i]]]
            \o [i \in 1..(saved.bookId - bookId) |-> saved.books[bookId + i - 1]]]

GetBooksSearch(query, answers) ==
  IF query = <<>>
  THEN /\ last' = Call("GET /api/books/search", [query |-> query],
                       [status |-> 400, asked |-> FALSE, offered |-> 0, saved |-> 0,
                        threw |-> FALSE, body |-> Undefined],
                       FALSE)
       /\ UNCHANGED <<requests, userVars, prefVars, bookVars, favVars, notifVars, viewVars,
                      authorVars, seriesVars, followVars, serviceStorage, now>>
  ELSE LET found == searchBooks(query)
           asked == Len(found) < SupplementBelow
       IN \E googleBooks \in answers :
            LET saved == SearchSaved(found, googleBooks)
                response == SearchResponse(found, googleBooks, saved)
            IN /\ saved.bookId <= MaxBooks + 1
               /\ books' = saved.books
               /\ bookId' = saved.bookId
               /\ last' = Call("GET /api/books/search", [query |-> query],
                               [status |-> response.status,
                                asked |-> asked,
                                offered |-> IF asked THEN Len(googleBooks.items) ELSE 0,
                                saved |-> saved.bookId - bookId,
                                threw |-> asked /\ googleBooks.threw,
                                body |-> response.body],
                               FALSE)
               /\ UNCHANGED <<requests, userVars, prefVars, favVars, notifVars, viewVars,
                              authorVars, seriesVars, followVars, serviceStorage, now>>

\* the records the external source may return
Volume(googleId, title, isNew) ==
  [googleId |-> googleId, title |-> title, author |-> <<"B", "o">>,
   description |-> <<>>, categories |-> <<>>, ageRange |-> "6-8 years",
   isNew |-> isNew]

\* lists of at most n elements of S
ListsUpTo(S, n) == UNION {[1..k -> S] : k \in 0..n}

\* ------------------------------------------------------ HTTP: favorites
\* MemStorage.getUserByUsername: the first user with the name
getUserByUsername(username) ==
  IF {k \in DOMAIN users : users[k].username = username} = {} THEN Undefined
  ELSE users[FirstKey({k \in DOMAIN users : users[k].username = username})]

\* a request body that the handler's zod schema rejects
InvalidBody == [invalid |-> TRUE]

\* the response of a handler
Response(status, body) == [status |-> status, body |-> body]

\* POST /api/favorites: 400 on a body the schema rejects, 404 without the demo
\* user or the book, 400 when isFavorite already holds, else addFavorite and 201.
\* The body's userId is overwritten with the demo user's id.
PostFavoritesData(body) == [userId |-> getUserByUsername("demo").id, bookId |-> body.bookId]

\* (mutant) the handler without its "already a favorite" check
PostFavoritesStatus_NoFavoriteCheck(body) ==
  IF body = InvalidBody THEN 400
  ELSE IF getUserByUsername("demo") = Undefined THEN 404
  ELSE IF getBook(body.bookId) = Undefined THEN 404
  ELSE 201

PostFavoritesStatus(body) ==
  IF body = InvalidBody THEN 400
  ELSE IF getUserByUsername("demo") = Undefined THEN 404
  ELSE IF getBook(body.bookId) = Undefined THEN 404
  ELSE IF isFavorite(getUserByUsername("demo").id, body.bookId) THEN 400
  ELSE 201

PostFavorites(body) ==
  /\ IF PostFavoritesStatus(body) = 201
     THEN /\ favoriteId <= MaxRows
          /\ addFavorite(PostFavoritesData(body))
          /\ last' = Call("POST /api/favorites", body,
                          Response(201, addFavoriteRow(PostFavoritesData(body))), FALSE)
     ELSE /\ UNCHANGED favVars
          /\ last' = Call("POST /api/favorites", body,
                          Response(PostFavoritesStatus(body), Undefined),
                          /\ body # InvalidBody
                          /\ getUserByUsername("demo") # Undefined
                          /\ isFavorite(getUserByUsername("demo").id, body.bookId))
  /\ UNCHANGED <<requests, userVars, prefVars, bookVars, notifVars, viewVars, authorVars,
                 seriesVars, followVars, serviceStorage, now>>

\* DELETE /api/favorites/:bookId: 400 when the parameter is no number, 404
\* without the demo user or when removeFavorite returns false, else 200
DeleteFavoritesStatus(param) ==
  IF isNaN(parseInt(param)) THEN 400
  ELSE IF getUserByUsername("demo") = Undefined THEN 404
  ELSE IF favoriteToRemove(getUserByUsername("demo").id, parseInt(param).value) = Undefined
       THEN 404
  ELSE 200

DeleteFavorites(param) ==
  /\ IF isNaN(parseInt(param)) \/ getUserByUsername("demo") = Undefined
     THEN UNCHANGED favVars
     ELSE removeFavorite(getUserByUsername("demo").id, parseInt(param).value)
  /\ last' = Call("DELETE /api/favorites/:bookId", [bookId |-> param],
                  Response(DeleteFavoritesStatus(param), Undefined),
                  DeleteFavoritesStatus(param) = 200)
  /\ UNCHANGED <<requests, userVars, prefVars, bookVars, notifVars, viewVars, authorVars,
                 seriesVars, followVars, serviceStorage, now>>

\* request inputs
FavoriteBodies == {InvalidBody} \cup [userId : Keys, bookId : Keys]

IdParams == {<<"1">>, <<" ", "1">>, <<"2", "x">>, <<"x">>}

\* the favorites endpoints, with the search endpoint as the source of books,
\* one request at a time
NextHttpFav ==
  \/ \E body \in FavoriteBodies : PostFavorites(body)
  \/ \E param \in IdParams : DeleteFavorites(param)
  \/ GetBooksSearch(<<"d", "o", "g">>,
                    {Fetched(<<Volume(g, <<"D", "o", "g">>, FALSE)>>) : g \in {"g1", "g2"}})
  \/ Tick

SpecHttpFav == Init /\ [][NextHttpFav]_vars

\* -------------------------------------------------------------- following
\* the rows of a following map for a (userId, target) pair
AuthorFollowKeys(m, uid, aid) ==
  {k \in DOMAIN m : m[k].userId = uid /\ m[k].authorId = aid}

SeriesFollowKeys(m, uid, sid) ==
  {k \in DOMAIN m : m[k].userId = uid /\ m[k].seriesId = sid}

CategoryFollowKeys(m, uid, category) ==
  {k \in DOMAIN m : m[k].userId = uid /\ m[k].category = category}

\* MemStorage.isFollowingAuthor / isFollowingSeries / isFollowingCategory
isFollowingAuthor(uid, aid) == AuthorFollowKeys(followingAuthors, uid, aid) # {}

isFollowingSeries(uid, sid) == SeriesFollowKeys(followingSeries, uid, sid) # {}

isFollowingCategory(uid, category) ==
  CategoryFollowKeys(followingCategories, uid, category) # {}

\* rows created so far in the three following collections
FollowsCreated ==
  (followingAuthorId - 1) + (followingSeriesId - 1) + (followingCategoryId - 1)

\* MemStorage.followAuthor: existingEntry, the first row of the pair
\* (mutant) the check finds nothing
followAuthorExisting_Never(follow) == Undefined

followAuthorExisting(follow) ==
  IF AuthorFollowKeys(followingAuthors, follow.userId, follow.authorId) = {}
  THEN Undefined
  ELSE followingAuthors[FirstKey(AuthorFollowKeys(followingAuthors, follow.userId,
                                                  follow.authorId))]

followAuthorRow(follow) ==
  [id |-> followingAuthorId, userId |-> follow.userId, authorId |-> follow.authorId,
   followedAt |-> now]

\* MemStorage.followAuthor: the existing row is returned untouched, else a row
\* with the next id is stored
followAuthorReturn(follow) ==
  IF followAuthorExisting(follow) # Undefined THEN followAuthorExisting(follow)
  ELSE followAuthorRow(follow)

followAuthor(follow) ==
  IF followAuthorExisting(follow) # Undefined
  THEN UNCHANGED <<followingAuthors, followingAuthorId>>
  ELSE /\ FollowsCreated < MaxFollows
       /\ followingAuthorId' = followingAuthorId + 1
       /\ followingAuthors' = MapSet(followingAuthors, followingAuthorId,
                                     followAuthorRow(follow))

\* MemStorage.unfollowAuthor: deletes the first row of the pair, if any
authorEntryToRemove(uid, aid) ==
  IF AuthorFollowKeys(followingAuthors, uid, aid) = {} THEN Undefined
  ELSE followingAuthors[FirstKey(AuthorFollowKeys(followingAuthors, uid, aid))]

\* (mutant) reports success without deleting
unfollowAuthor_KeepsRow(uid, aid) == UNCHANGED <<followingAuthors, followingAuthorId>>

unfollowAuthor(uid, aid) ==
  /\ followingAuthors' =
       IF authorEntryToRemove(uid, aid) = Undefined THEN followingAuthors
       ELSE MapDelete(followingAuthors, authorEntryToRemove(uid, aid).id)
  /\ UNCHANGED followingAuthorId

\* MemStorage.followSeries
\* (mutant) the check finds nothing
followSeriesExisting_Never(follow) == Undefined

followSeriesExisting(follow) ==
  IF SeriesFollowKeys(followingSeries, follow.userId, follow.seriesId) = {}
  THEN Undefined
  ELSE followingSeries[FirstKey(SeriesFollowKeys(followingSeries, follow.userId,
                                                 follow.seriesId))]

followSeriesRow(follow) ==
  [id |-> followingSeriesId, userId |-> follow.userId, seriesId |-> follow.seriesId,
   followedAt |-> now]

followSeriesReturn(follow) ==
  IF followSeriesExisting(follow) # Undefined THEN followSeriesExisting(follow)
  ELSE followSeriesRow(follow)

followSeries(follow) ==
  IF followSeriesExisting(follow) # Undefined
  THEN UNCHANGED <<followingSeries, followingSeriesId>>
  ELSE /\ FollowsCreated < MaxFollows
       /\ followingSeriesId' = followingSeriesId + 1
       /\ followingSeries' = MapSet(followingSeries, followingSeriesId,
                                    followSeriesRow(follow))

\* MemStorage.unfollowSeries
seriesEntryToRemove(uid, sid) ==
  IF SeriesFollowKeys(followingSeries, uid, sid) = {} THEN Undefined
  ELSE followingSeries[FirstKey(SeriesFollowKeys(followingSeries, uid, sid))]

unfollowSeries(uid, sid) ==
  /\ followingSeries' =
       IF seriesEntryToRemove(uid, sid) = Undefined THEN followingSeries
       ELSE MapDelete(followingSeries, seriesEntryToRemove(uid, sid).id)
  /\ UNCHANGED followingSeriesId

\* MemStorage.followCategory
followCategoryExisting(follow) ==
  IF CategoryFollowKeys(followingCategories, follow.userId, follow.category) = {}
  THEN Undefined
  ELSE followingCategories[FirstKey(CategoryFollowKeys(followingCategories,
                                                       follow.userId, follow.category))]

followCategoryRow(follow) ==
  [id |-> followingCategoryId, userId |-> follow.userId, category |-> follow.category,
   followedAt |-> now]

followCategoryReturn(follow) ==
  IF followCategoryExisting(follow) # Undefined THEN followCategoryExisting(follow)
  ELSE followCategoryRow(follow)

followCategory(follow) ==
  IF followCategoryExisting(follow) # Undefined
  THEN UNCHANGED <<followingCategories, followingCategoryId>>
  ELSE /\ FollowsCreated < MaxFollows
       /\ followingCategoryId' = followingCategoryId + 1
       /\ followingCategories' = MapSet(followingCategories, followingCategoryId,
                                        followCategoryRow(follow))

\* MemStorage.unfollowCategory
categoryEntryToRemove(uid, category) ==
  IF CategoryFollowKeys(followingCategories, uid, category) = {} THEN Undefined
  ELSE followingCategories[FirstKey(CategoryFollowKeys(followingCategories, uid,
                                                       category))]

unfollowCategory(uid, category) ==
  /\ followingCategories' =
       IF categoryEntryToRemove(uid, category) = Undefined THEN followingCategories
       ELSE MapDelete(followingCategories, categoryEntryToRemove(uid, category).id)
  /\ UNCHANGED followingCategoryId

\* callers of the store call the following operations
CallFollowAuthor(follow) ==
  /\ followAuthor(follow)
  /\ last' = Call("followAuthor", follow, followAuthorReturn(follow),
                  isFollowingAuthor(follow.userId, follow.authorId))
  /\ UNCHANGED <<requests, userVars, prefVars, bookVars, favVars, notifVars, viewVars,
                 authorVars, seriesVars, followingSeries, followingSeriesId,
                 followingCategories, followingCategoryId, serviceStorage, now>>

CallUnfollowAuthor(uid, aid) ==
  /\ unfollowAuthor(uid, aid)
  /\ last' = Call("unfollowAuthor", [userId |-> uid, authorId |-> aid],
                  authorEntryToRemove(uid, aid) # Undefined, isFollowingAuthor(uid, aid))
  /\ UNCHANGED <<requests, userVars, prefVars, bookVars, favVars, notifVars, viewVars,
                 authorVars, seriesVars, followingSeries, followingSeriesId,
                 followingCategories, followingCategoryId, serviceStorage, now>>

CallFollowSeries(follow) ==
  /\ followSeries(follow)
  /\ last' = Call("followSeries", follow, followSeriesReturn(follow),
                  isFollowingSeries(follow.userId, follow.seriesId))
  /\ UNCHANGED <<requests, userVars, prefVars, bookVars, favVars, notifVars, viewVars,
                 authorVars, seriesVars, followingAuthors, followingAuthorId,
                 followingCategories, followingCategoryId, serviceStorage, now>>

CallUnfollowSeries(uid, sid) ==
  /\ unfollowSeries(uid, sid)
  /\ last' = Call("unfollowSeries", [userId |-> uid, seriesId |-> sid],
                  seriesEntryToRemove(uid, sid) # Undefined, isFollowingSeries(uid, sid))
  /\ UNCHANGED <<requests, userVars, prefVars, bookVars, favVars, notifVars, viewVars,
                 authorVars, seriesVars, followingAuthors, followingAuthorId,
                 followingCategories, followingCategoryId, serviceStorage, now>>

CallFollowCategory(follow) ==
  /\ followCategory(follow)
  /\ last' = Call("followCategory", follow, followCategoryReturn(follow),
                  isFollowingCategory(follow.userId, follow.category))
  /\ UNCHANGED <<requests, userVars, prefVars, bookVars, favVars, notifVars, viewVars,
                 authorVars, seriesVars, followingAuthors, followingAuthorId,
                 followingSeries, followingSeriesId, serviceStorage, now>>

CallUnfollowCategory(uid, category) ==
  /\ unfollowCategory(uid, category)
  /\ last' = Call("unfollowCategory", [userId |-> uid, category |-> category],
                  categoryEntryToRemove(uid, category) # Undefined,
                  isFollowingCategory(uid, category))
  /\ UNCHANGED <<requests, userVars, prefVars, bookVars, favVars, notifVars, viewVars,
                 authorVars, seriesVars, followingAuthors, followingAuthorId,
                 followingSeries, followingSeriesId, serviceStorage, now>>

\* ------------------------------------------------------ HTTP: following
\* a handler that threw before answering: the request gets no response
NoResponse == Response(0, Undefined)

\* DELETE /api/following/authors/:authorId: 400 when the parameter is no
\* number, 404 without the demo user or when unfollowAuthor returns false,
\* else 200
DeleteFollowingAuthorStatus(param) ==
  IF isNaN(parseInt(param)) THEN 400
  ELSE IF getUserByUsername("demo") = Undefined THEN 404
  ELSE IF authorEntryToRemove(getUserByUsername("demo").id, parseInt(param).value)
            = Undefined
       THEN 404
  ELSE 200

DeleteFollowingAuthor(param) ==
  /\ IF isNaN(parseInt(param)) \/ getUserByUsername("demo") = Undefined
     THEN UNCHANGED <<followingAuthors, followingAuthorId>>
     ELSE unfollowAuthor(getUserByUsername("demo").id, parseInt(param).value)
  /\ last' = Call("DELETE /api/following/authors/:authorId", [authorId |-> param],
                  Response(DeleteFollowingAuthorStatus(param), Undefined),
                  /\ ~isNaN(parseInt(param))
                  /\ getUserByUsername("demo") # Undefined
                  /\ isFollowingAuthor(getUserByUsername("demo").id,
                                       parseInt(param).value))
  /\ UNCHANGED <<requests, userVars, prefVars, bookVars, favVars, notifVars, viewVars,
                 authorVars, seriesVars, followingSeries, followingSeriesId,
                 followingCategories, followingCategoryId, serviceStorage, now>>

\* DELETE /api/following/series/:seriesId
DeleteFollowingSeriesStatus(param) ==
  IF isNaN(parseInt(param)) THEN 400
  ELSE IF getUserByUsername("demo") = Undefined THEN 404
  ELSE IF seriesEntryToRemove(getUserByUsername("demo").id, parseInt(param).value)
            = Undefined
       THEN 404
  ELSE 200

DeleteFollowingSeries(param) ==
  /\ IF isNaN(parseInt(param)) \/ getUserByUsername("demo") = Undefined
     THEN UNCHANGED <<followingSeries, followingSeriesId>>
     ELSE unfollowSeries(getUserByUsername("demo").id, parseInt(param).value)
  /\ last' = Call("DELETE /api/following/series/:seriesId", [seriesId |-> param],
                  Response(DeleteFollowingSeriesStatus(param), Undefined),
                  /\ ~isNaN(parseInt(param))
                  /\ getUserByUsername("demo") # Undefined
                  /\ isFollowingSeries(getUserByUsername("demo").id,
                                       parseInt(param).value))
  /\ UNCHANGED <<requests, userVars, prefVars, bookVars, favVars, notifVars, viewVars,
                 authorVars, seriesVars, followingAuthors, followingAuthorId,
                 followingCategories, followingCategoryId, serviceStorage, now>>

\* DELETE /api/following/categories/:category: the parameter goes through
\* decodeURIComponent (a throw there leaves the request unanswered), then 404
\* without the demo user or when unfollowCategory returns false, else 200
DeleteFollowingCategoryResponse(param) ==
  IF decodeURIComponent(param).threw THEN NoResponse
  ELSE IF getUserByUsername("demo") = Undefined THEN Response(404, Undefined)
  ELSE IF categoryEntryToRemove(getUserByUsername("demo").id,
                                decodeURIComponent(param).text) = Undefined
       THEN Response(404, Undefined)
  ELSE Response(200, Undefined)

DeleteFollowingCategory(param) ==
  /\ IF decodeURIComponent(param).threw \/ getUserByUsername("demo") = Undefined
     THEN UNCHANGED <<followingCategories, followingCategoryId>>
     ELSE unfollowCategory(getUserByUsername("demo").id, decodeURIComponent(param).text)
  /\ last' = Call("DELETE /api/following/categories/:category", [category |-> param],
                  DeleteFollowingCategoryResponse(param),
                  /\ ~decodeURIComponent(param).threw
                  /\ getUserByUsername("demo") # Undefined
                  /\ isFollowingCategory(getUserByUsername("demo").id,
                                         decodeURIComponent(param).text))
  /\ UNCHANGED <<requests, userVars, prefVars, bookVars, favVars, notifVars, viewVars,
                 authorVars, seriesVars, followingAuthors, followingAuthorId,
                 followingSeries, followingSeriesId, serviceStorage, now>>

\* category names, as texts
Fantasy == <<"F", "a", "n", "t", "a", "s", "y">>

Mystery == <<"M", "y", "s", "t", "e", "r", "y">>

CategoryInputs == {Fantasy, Mystery}

CategoryParams == {Mystery, <<"%", "4", "6">> \o Tail(Fantasy), <<"M", "%">>}

FollowIdParams == {<<"1">>, <<"2", "x">>, <<"x">>}

\* the following operations of the store called directly and the DELETE
\* endpoints, in any order, one at a time: authors by two users and two
\* authors, series by two users and one series, categories by one user and two
\* categories
NextFollow ==
  \/ \E uid \in Keys, aid \in Keys : CallFollowAuthor([userId |-> uid, authorId |-> aid])
  \/ \E uid \in Keys, aid \in Keys : CallUnfollowAuthor(uid, aid)
  \/ \E uid \in Keys : CallFollowSeries([userId |-> uid, seriesId |-> 1])
  \/ \E uid \in Keys : CallUnfollowSeries(uid, 1)
  \/ \E c \in CategoryInputs : CallFollowCategory([userId |-> 1, category |-> c])
  \/ \E c \in CategoryInputs : CallUnfollowCategory(1, c)
  \/ \E param \in FollowIdParams : DeleteFollowingAuthor(param)
  \/ \E param \in FollowIdParams : DeleteFollowingSeries(param)
  \/ \E param \in CategoryParams : DeleteFollowingCategory(param)
  \/ Tick

SpecFollow == Init /\ [][NextFollow]_vars

\* -------------------------------------------------------- recently viewed
\* the recently viewed rows of the pair (userId, bookId)
ViewedKeys(m, uid, bid) == {k \in DOMAIN m : m[k].userId = uid /\ m[k].bookId = bid}

\* MemStorage.addRecentlyViewed: existingEntry, the first row of the pair
\* (mutant) the check finds nothing
addRecentlyViewedExisting_Never(viewed) == Undefined

addRecentlyViewedExisting(viewed) ==
  IF ViewedKeys(recentlyViewed, viewed.userId, viewed.bookId) = {} THEN Undefined
  ELSE recentlyViewed[FirstKey(ViewedKeys(recentlyViewed, viewed.userId,
                                          viewed.bookId))]

\* MemStorage.addRecentlyViewed: the row it returns, the existing entry with a
\* new timestamp or a new entry with the next id
addRecentlyViewedReturn(viewed) ==
  IF addRecentlyViewedExisting(viewed) # Undefined
  THEN [addRecentlyViewedExisting(viewed) EXCEPT !.viewedAt = now]
  ELSE [id |-> recentlyViewedId, userId |-> viewed.userId, bookId |-> viewed.bookId,
        viewedAt |-> now]

addRecentlyViewed(viewed) ==
  IF addRecentlyViewedExisting(viewed) # Undefined
  THEN /\ recentlyViewed' = MapSet(recentlyViewed, addRecentlyViewedExisting(viewed).id,
                                   addRecentlyViewedReturn(viewed))
       /\ UNCHANGED recentlyViewedId
  ELSE /\ recentlyViewedId <= MaxRows
       /\ recentlyViewedId' = recentlyViewedId + 1
       /\ recentlyViewed' = MapSet(recentlyViewed, recentlyViewedId,
                                   addRecentlyViewedReturn(viewed))

\* MemStorage.clearRecentlyViewed: deletes every row of the user, returns true
clearRecentlyViewed(uid) ==
  /\ recentlyViewed' = [k \in {j \in DOMAIN recentlyViewed :
                                 recentlyViewed[j].userId # uid} |-> recentlyViewed[k]]
  /\ UNCHANGED recentlyViewedId

CallAddRecentlyViewed(viewed) ==
  /\ addRecentlyViewed(viewed)
  /\ last' = Call("addRecentlyViewed", viewed, addRecentlyViewedReturn(viewed),
                  ViewedKeys(recentlyViewed, viewed.userId, viewed.bookId) # {})
  /\ UNCHANGED <<requests, userVars, prefVars, bookVars, favVars, notifVars, authorVars,
                 seriesVars, followVars, serviceStorage, now>>

CallClearRecentlyViewed(uid) ==
  /\ clearRecentlyViewed(uid)
  /\ last' = Call("clearRecentlyViewed", [userId |-> uid], TRUE,
                  \E k \in DOMAIN recentlyViewed : recentlyViewed[k].userId = uid)
  /\ UNCHANGED <<requests, userVars, prefVars, bookVars, favVars, notifVars, authorVars,
                 seriesVars, followVars, serviceStorage, now>>

\* addRecentlyViewed and clearRecentlyViewed called in any order, one at a time
NextViewed ==
  \/ \E uid \in Keys, bid \in Keys :
       CallAddRecentlyViewed([userId |-> uid, bookId |-> bid])
  \/ \E uid \in Keys : CallClearRecentlyViewed(uid)
  \/ Tick

SpecViewed == Init /\ [][NextViewed]_vars

\* --------------------------------------------------- users and preferences
\* MemStorage.getUserPreferences on the map m: the first row of the user
getUserPreferences(m, uid) ==
  IF {k \in DOMAIN m : m[k].userId = uid} = {} THEN Undefined
  ELSE m[FirstKey({k \in DOMAIN m : m[k].userId = uid})]

\* MemStorage.createUser: the user takes the next id, then createUserPreferences
\* stores the default preferences of that id under the next preferences id
createUser(insertUser) ==
  /\ userId <= MaxUsers
  /\ users' = MapSet(users, userId, [id |-> userId, username |-> insertUser.username,
                                     password |-> insertUser.password])
  /\ userId' = userId + 1
  /\ userPreferences' = MapSet(userPreferences, userPreferencesId,
                               DefaultPreferences(userPreferencesId, userId))
  /\ userPreferencesId' = userPreferencesId + 1

\* { ...prefs, ...prefsUpdate }: the fields of the second record win
Spread(prefs, prefsUpdate) ==
  [f \in DOMAIN prefs \cup DOMAIN prefsUpdate |->
     IF f \in DOMAIN prefsUpdate THEN prefsUpdate[f] ELSE prefs[f]]

\* MemStorage.updateUserPreferences: the row it returns, undefined without a
\* row of the user
updateUserPreferencesReturn(uid, prefsUpdate) ==
  IF getUserPreferences(userPreferences, uid) = Undefined THEN Undefined
  ELSE Spread(getUserPreferences(userPreferences, uid), prefsUpdate)

updateUserPreferences(uid, prefsUpdate) ==
  /\ userPreferences' =
       IF getUserPreferences(userPreferences, uid) = Undefined THEN userPreferences
       ELSE MapSet(userPreferences, getUserPreferences(userPreferences, uid).id,
                   updateUserPreferencesReturn(uid, prefsUpdate))
  /\ UNCHANGED userPreferencesId

CallCreateUser(insertUser) ==
  /\ createUser(insertUser)
  /\ last' = Call("createUser", insertUser,
                  [id |-> userId, username |-> insertUser.username,
                   password |-> insertUser.password],
                  getUserPreferences(userPreferences, userId) # Undefined)
  /\ UNCHANGED <<requests, bookVars, favVars, notifVars, viewVars, authorVars, seriesVars,
                 followVars, serviceStorage, now>>

CallUpdateUserPreferences(uid, prefsUpdate) ==
  /\ updateUserPreferences(uid, prefsUpdate)
  /\ last' = Call("updateUserPreferences", [userId |-> uid, prefsUpdate |-> prefsUpdate],
                  updateUserPreferencesReturn(uid, prefsUpdate),
                  getUserPreferences(userPreferences, uid) # Undefined)
  /\ UNCHANGED <<requests, userVars, bookVars, favVars, notifVars, viewVars, authorVars,
                 seriesVars, followVars, serviceStorage, now>>

\* PUT /api/preferences: 400 for a body the schema rejects, 404 without the
\* demo user or without a preferences row of the demo user, else the body is
\* merged into that row by updateUserPreferences and the row is answered
PutPreferencesResponse(body) ==
  IF body = InvalidBody THEN Response(400, Undefined)
  ELSE IF getUserByUsername("demo") = Undefined THEN Response(404, Undefined)
  ELSE IF updateUserPreferencesReturn(getUserByUsername("demo").id, body) = Undefined
       THEN Response(404, Undefined)
  ELSE Response(200, updateUserPreferencesReturn(getUserByUsername("demo").id, body))

PutPreferences(body) ==
  /\ IF body = InvalidBody \/ getUserByUsername("demo") = Undefined
     THEN UNCHANGED prefVars
     ELSE updateUserPreferences(getUserByUsername("demo").id, body)
  /\ last' = Call("PUT /api/preferences", body, PutPreferencesResponse(body),
                  /\ getUserByUsername("demo") # Undefined
                  /\ getUserPreferences(userPreferences, getUserByUsername("demo").id)
                       # Undefined)
  /\ UNCHANGED <<requests, userVars, bookVars, favVars, notifVars, viewVars, authorVars,
                 seriesVars, followVars, serviceStorage, now>>

\* request bodies that insertUserPreferencesSchema accepts: userId is required,
\* the other fields may be left out
PreferencesBodies ==
  {[userId |-> u] : u \in Keys}
    \cup {[userId |-> u, preferredCategories |-> c] :
            u \in Keys, c \in {<<>>, <<"Fantasy">>}}
    \cup {[userId |-> u, preferredAgeRanges |-> <<"6-8 years">>,
           notificationsEnabled |-> FALSE] : u \in Keys}

InsertUsers == {[username |-> n, password |-> "pw"] : n \in {"amy", "bob"}}

\* createUser called by any caller and PUT /api/preferences requests, in any
\* order, one at a time
NextUser ==
  \/ \E insertUser \in InsertUsers : CallCreateUser(insertUser)
  \/ \E body \in PreferencesBodies \cup {InvalidBody} : PutPreferences(body)

SpecUser == Init /\ [][NextUser]_vars

\* --------------------------------------------------------- HTTP: search
\* the records the external source returns here, of five googleIds
ExternalVolumes ==
  {Volume("g1", <<"D", "o", "g">>, FALSE), Volume("g2", <<"D", "o", "g">>, FALSE),
   Volume("g3", <<"C", "a", "t">>, FALSE), Volume("g4", <<"D", "o", "g">>, TRUE),
   Volume("g5", <<"C", "a", "t">>, FALSE)}

\* the queries asked here: none, and one that matches every stored book (by
\* its author, in lower case)
SearchQueries == {<<>>, <<"B", "O">>}

\* GET /api/books/search requests, one at a time, the external source answering
\* with any list of at most MaxExt records or failing
ExternalAnswers ==
  {Fetched(l) : l \in ListsUpTo(ExternalVolumes, MaxExt)} \cup {FetchError}

NextSearch == \E query \in SearchQueries : GetBooksSearch(query, ExternalAnswers)

SpecSearch == Init /\ [][NextSearch]_vars

\* ------------------------------------------------- books and notifications
\* MemStorage.createBook: the book takes the next id; no lookup by googleId
createBook(insertBook) ==
  /\ bookId <= MaxBooks
  /\ books' = MapSet(books, bookId, createBookRow(insertBook, bookId))
  /\ bookId' = bookId + 1

CallCreateBook(insertBook) ==
  /\ createBook(insertBook)
  /\ last' = Call("createBook", insertBook, createBookRow(insertBook, bookId),
                  getBookByGoogleId(books, insertBook.googleId) # Undefined)
  /\ UNCHANGED <<requests, userVars, prefVars, favVars, notifVars, viewVars, authorVars,
                 seriesVars, followVars, serviceStorage, now>>

\* MemStorage.createNotification: { ...notification, id, isRead: false,
\* createdAt: new Date() }
\* (mutant) the input is spread last, over the fields the store sets
createNotificationRow_InputLast(notification, id) ==
  Spread([id |-> id, isRead |-> FALSE, createdAt |-> now], notification)

createNotificationRow(notification, id) ==
  Spread(notification, [id |-> id, isRead |-> FALSE, createdAt |-> now])

createNotification(notification) ==
  /\ notificationId <= MaxNotifications
  /\ notifications' = MapSet(notifications, notificationId,
                             createNotificationRow(notification, notificationId))
  /\ notificationId' = notificationId + 1

CallCreateNotification(notification) ==
  /\ createNotification(notification)
  /\ last' = Call("createNotification", notification,
                  createNotificationRow(notification, notificationId),
                  \E k \in DOMAIN notifications :
                    /\ notifications[k].userId = notification.userId
                    /\ notifications[k].bookId = notification.bookId)
  /\ UNCHANGED <<requests, userVars, prefVars, bookVars, favVars, viewVars, authorVars,
                 seriesVars, followVars, serviceStorage, now>>

\* ----------------------------------------------------- NotificationService
\* (mutant) a storage that has the getNewReleases method the matcher calls
StorageMethods_WithGetNewReleases == {"getNewReleases", "getUser", "createNotification"}

\* the methods a storage has: those of IStorage, which MemStorage implements
\* and to which it adds none
StorageMethods ==
  {"getUser", "getUserByUsername", "createUser", "getBook", "getBookByGoogleId",
   "createBook", "updateBook", "getBooks", "searchBooks", "getUserPreferences",
   "createUserPreferences", "updateUserPreferences", "getFavorites", "addFavorite",
   "removeFavorite", "isFavorite", "getNotifications", "createNotification",
   "markNotificationAsRead", "markAllNotificationsAsRead",
   "getUnreadNotificationCount", "getRecentlyViewed", "addRecentlyViewed",
   "clearRecentlyViewed", "getAuthors", "getAuthor", "getAuthorByName",
   "createAuthor", "getBookSeries", "getBookSeriesById", "getBookSeriesByName",
   "createBookSeries", "getFollowingAuthors", "followAuthor", "unfollowAuthor",
   "isFollowingAuthor", "getFollowingSeries", "followSeries", "unfollowSeries",
   "isFollowingSeries", "getFollowingCategories", "followCategory",
   "unfollowCategory", "isFollowingCategory"}

\* NotificationService.init: the storage is kept (and the timers are set, which
\* is why checkForNewBooks may run at any later time)
ServiceInit ==
  /\ serviceStorage' = "set"
  /\ last' = Call("init", NoArgs, Undefined, serviceStorage = "set")
  /\ UNCHANGED <<requests, userVars, prefVars, bookVars, favVars, notifVars, viewVars,
                 authorVars, seriesVars, followVars, now>>

\* NotificationService.checkForNewBooks: without a storage it returns at once;
\* with one, its first statement in the try block calls
\* this.storage.getNewReleases(), a method no storage has, so the call throws
\* TypeError and the catch block logs it
checkForNewBooksOutcome ==
  IF serviceStorage = "null" THEN "Storage not initialized"
  ELSE IF "getNewReleases" \notin StorageMethods THEN "Error checking for new books"
  ELSE "done"

\* (mutant) a run that notifies user 1 of every new book, whatever was notified
\* before
checkForNewBooksCreates_EveryNewBook ==
  LET newBooks == KeysInOrder({k \in DOMAIN books : books[k].isNew})
  IN [i \in 1..Len(newBooks) |->
        [userId |-> 1, title |-> "New Book Release", message |-> books[newBooks[i]].title,
         bookId |-> newBooks[i], isRead |-> FALSE]]

\* the notifications one run hands to createNotification, in order: none, the
\* run being over before the loops that would create them are reached
checkForNewBooksCreates == <<>>

\* createNotification for each of the given notifications in turn
RECURSIVE CreateAll(_, _, _)
CreateAll(toCreate, m, nextId) ==
  IF toCreate = <<>> THEN [notifications |-> m, notificationId |-> nextId]
  ELSE CreateAll(Tail(toCreate),
                 MapSet(m, nextId, createNotificationRow(Head(toCreate), nextId)),
                 nextId + 1)

\* (mutant) a run that takes the isNew flag off every book it has looked at
CheckForNewBooks_ClearsIsNew ==
  LET run == IF last.op = "checkForNewBooks" THEN last.ret.run + 1 ELSE 1
  IN /\ run <= MaxRuns
     /\ books' = [k \in DOMAIN books |-> [books[k] EXCEPT !.isNew = FALSE]]
     /\ last' = Call("checkForNewBooks", NoArgs,
                     [outcome |-> checkForNewBooksOutcome, run |-> run, created |-> 0],
                     notifications # EmptyMap)
     /\ UNCHANGED <<requests, userVars, prefVars, bookId, favVars, notifVars, viewVars,
                    authorVars, seriesVars, followVars, serviceStorage, now>>

\* one run of the matcher, started by a timer or called directly; the call
\* reports how it ended, how many notifications it created and the number of
\* the run among consecutive runs
CheckForNewBooks ==
  LET created == CreateAll(checkForNewBooksCreates, notifications, notificationId)
      run == IF last.op = "checkForNewBooks" THEN last.ret.run + 1 ELSE 1
  IN /\ run <= MaxRuns
     /\ created.notificationId <= MaxNotifications + 1
     /\ notifications' = created.notifications
     /\ notificationId' = created.notificationId
     /\ last' = Call("checkForNewBooks", NoArgs,
                     [outcome |-> checkForNewBooksOutcome, run |-> run,
                      created |-> created.notificationId - notificationId],
                     notifications # EmptyMap)
     /\ UNCHANGED <<requests, userVars, prefVars, bookVars, favVars, viewVars, authorVars,
                    seriesVars, followVars, serviceStorage, now>>

\* the inputs of the matcher's callers: a new book and an old one, both of the
\* age range "6-8 years"; preferences of one age range or one category; a
\* notification about the first book
MatcherBooks == {Volume("g1", <<"D", "o", "g">>, TRUE), Volume("g2", <<"C", "a", "t">>, FALSE)}

MatcherPreferences ==
  {[preferredAgeRanges |-> <<"6-8 years">>], [preferredCategories |-> <<"Adventure">>]}

MatcherNotifications ==
  {[userId |-> 1, title |-> "New Book Release", message |-> <<"D", "o", "g">>,
    type |-> "book_release", bookId |-> 1]}

\* the matcher between createBook, updateUserPreferences and createNotification
\* calls of other callers
NextMatcher ==
  \/ ServiceInit
  \/ CheckForNewBooks
  \/ \E insertBook \in MatcherBooks : CallCreateBook(insertBook)
  \/ \E prefsUpdate \in MatcherPreferences : CallUpdateUserPreferences(1, prefsUpdate)
  \/ \E notification \in MatcherNotifications : CallCreateNotification(notification)

SpecMatcher == Init /\ [][NextMatcher]_vars

\* ------------------------------------------------------ authors and series
\* MemStorage.getAuthorByName / getBookSeriesByName: the first row of the name
getAuthorByName(name) ==
  IF {k \in DOMAIN authors : authors[k].name = name} = {} THEN Undefined
  ELSE authors[FirstKey({k \in DOMAIN authors : authors[k].name = name})]

getBookSeriesByName(name) ==
  IF {k \in DOMAIN bookSeries : bookSeries[k].name = name} = {} THEN Undefined
  ELSE bookSeries[FirstKey({k \in DOMAIN bookSeries : bookSeries[k].name = name})]

\* MemStorage.createAuthor / createBookSeries: { ...data, id } under the next
\* id; no lookup by name
createAuthor(authorData) ==
  /\ authorId <= SeedAuthors + MaxNamed
  /\ authors' = MapSet(authors, authorId, Spread(authorData, [id |-> authorId]))
  /\ authorId' = authorId + 1

createBookSeries(seriesData) ==
  /\ bookSeriesId <= SeedSeries + MaxNamed
  /\ bookSeries' = MapSet(bookSeries, bookSeriesId,
                          Spread(seriesData, [id |-> bookSeriesId]))
  /\ bookSeriesId' = bookSeriesId + 1

CallCreateAuthor(authorData) ==
  /\ createAuthor(authorData)
  /\ last' = Call("createAuthor", authorData, Spread(authorData, [id |-> authorId]),
                  getAuthorByName(authorData.name) # Undefined)
  /\ UNCHANGED <<requests, userVars, prefVars, bookVars, favVars, notifVars, viewVars,
                 seriesVars, followVars, serviceStorage, now>>

CallCreateBookSeries(seriesData) ==
  /\ createBookSeries(seriesData)
  /\ last' = Call("createBookSeries", seriesData,
                  Spread(seriesData, [id |-> bookSeriesId]),
                  getBookSeriesByName(seriesData.name) # Undefined)
  /\ UNCHANGED <<requests, userVars, prefVars, bookVars, favVars, notifVars, viewVars,
                 authorVars, followVars, serviceStorage, now>>

\* ------------------------------------------------------------ every create
\* rows created since the constructor, all collections together (the default
\* preferences of a user count with the user)
Created ==
  (userId - 2) + (bookId - 1) + (favoriteId - 1) + (notificationId - 1)
    + (recentlyViewedId - 1) + (authorId - (SeedAuthors + 1))
    + (bookSeriesId - (SeedSeries + 1)) + FollowsCreated

\* every create operation of the store and every operation that deletes rows,
\* called in any order, one at a time, each for one fixed input
\* a step that stays within the rows that may be created
WithinCreated(step) == step /\ Created' <= MaxCreated

NextIds ==
  \/ WithinCreated(CallCreateUser([username |-> "amy", password |-> "pw"]))
  \/ WithinCreated(CallCreateBook(Volume("g1", <<"D", "o", "g">>, TRUE)))
  \/ WithinCreated(CallCreateNotification(
                     [userId |-> 1, title |-> "New Book Release",
                      message |-> <<"D", "o", "g">>, type |-> "book_release",
                      bookId |-> 1]))
  \/ WithinCreated(CallCreateAuthor([name |-> "Dr. Seuss"]))
  \/ WithinCreated(CallCreateBookSeries([name |-> "Harry Potter"]))
  \/ WithinCreated(CallAddFavorite([userId |-> 1, bookId |-> 1]))
  \/ WithinCreated(CallRemoveFavorite(1, 1))
  \/ WithinCreated(CallAddRecentlyViewed([userId |-> 1, bookId |-> 1]))
  \/ WithinCreated(CallClearRecentlyViewed(1))
  \/ WithinCreated(CallFollowAuthor([userId |-> 1, authorId |-> 1]))
  \/ WithinCreated(CallUnfollowAuthor(1, 1))
  \/ WithinCreated(CallFollowSeries([userId |-> 1, seriesId |-> 1]))
  \/ WithinCreated(CallUnfollowSeries(1, 1))
  \/ WithinCreated(CallFollowCategory([userId |-> 1, category |-> Fantasy]))
  \/ WithinCreated(CallUnfollowCategory(1, Fantasy))

SpecIds == Init /\ [][NextIds]_vars

\* --------------------------------------------------------------- getBooks
\* the options object of getBooks is a record of the fields that are given.
\* "if (options.category)" and the like test the value for truthiness: a field
\* that is missing, the empty string and the number 0 all fail the test.
HasText(options, field) == field \in DOMAIN options /\ options[field] # ""

HasNumber(options, field) == field \in DOMAIN options /\ options[field] # 0

\* MemStorage.getBooks: the three filters, each applied when its test passes
\* (mutant) a book that passes one of the filters is kept
getBooksKeeps_Any(book, options) ==
  \/ HasText(options, "category")
       /\ \E i \in 1..Len(book.categories) : book.categories[i] = options.category
  \/ HasText(options, "ageRange") /\ book.ageRange = options.ageRange
  \/ "isNew" \in DOMAIN options /\ book.isNew = options.isNew
  \/ DOMAIN options \cap {"category", "ageRange", "isNew"} = {}

getBooksKeeps(book, options) ==
  /\ HasText(options, "category")
       => \E i \in 1..Len(book.categories) : book.categories[i] = options.category
  /\ HasText(options, "ageRange") => book.ageRange = options.ageRange
  /\ "isNew" \in DOMAIN options => book.isNew = options.isNew

\* books.sort((a, b) => b.id - a.id): the keys in descending order
RECURSIVE KeysDescending(_)
KeysDescending(S) ==
  IF S = {} THEN <<>>
  ELSE LET k == CHOOSE j \in S : \A i \in S : i <= j
       IN <<k>> \o KeysDescending(S \ {k})

\* Array.prototype.slice(start, end) for 0 <= start <= end
\* (mutant) the slice starts at the head of the list
Slice_FromHead(list, start, end) ==
  SubSeq(list, 1, IF end - start < Len(list) THEN end - start ELSE Len(list))

Slice(list, start, end) ==
  SubSeq(list, start + 1, IF end < Len(list) THEN end ELSE Len(list))

\* MemStorage.getBooks: the ids of the books it returns, in order
getBooks(options) ==
  LET sorted == KeysDescending({k \in DOMAIN books : getBooksKeeps(books[k], options)})
  IN IF HasNumber(options, "offset") /\ HasNumber(options, "limit")
     THEN Slice(sorted, options.offset, options.offset + options.limit)
     ELSE IF HasNumber(options, "limit")
          THEN Slice(sorted, 0, options.limit)
          ELSE sorted

\* the operations that only read the store
ReadOps == {"getBooks", "searchBooks"}

\* a caller calls getBooks; the store stays as it is.  (One read is taken
\* between two writes: a second read would see the same store.)
CallGetBooks(options) ==
  /\ last.op \notin ReadOps
  /\ last' = Call("getBooks", options, [books |-> getBooks(options)], books # EmptyMap)
  /\ UNCHANGED <<requests, userVars, prefVars, bookVars, favVars, notifVars, viewVars,
                 authorVars, seriesVars, followVars, serviceStorage, now>>

\* the books created here: they differ in category, age range and isNew
BookOf(googleId, categories, ageRange, isNew) ==
  [googleId |-> googleId, title |-> <<"D", "o", "g">>, author |-> <<"B", "o">>,
   description |-> <<>>, categories |-> categories, ageRange |-> ageRange,
   isNew |-> isNew]

FilterBooks ==
  {BookOf("g1", <<"Fantasy">>, "6-8 years", TRUE),
   BookOf("g2", <<"Mystery", "Fantasy">>, "9-12 years", FALSE),
   BookOf("g3", <<"Mystery">>, "6-8 years", FALSE)}

\* the options asked here: every field given or not
Given(field, values) == {[f \in {} |-> f]} \cup {[f \in {field} |-> v] : v \in values}

Merged(a, b) == [f \in DOMAIN a \cup DOMAIN b |-> IF f \in DOMAIN a THEN a[f] ELSE b[f]]

Filters ==
  {Merged(c, Merged(a, n)) : c \in Given("category", {"Fantasy"}),
                             a \in Given("ageRange", {"6-8 years"}),
                             n \in Given("isNew", {TRUE, FALSE})}

Pages ==
  {Merged(l, o) : l \in Given("limit", {0, 1, 2}), o \in Given("offset", {0, 1})}

GetBooksOptions == {Merged(f, p) : f \in Filters, p \in Pages}

\* createBook and getBooks called in any order, one at a time
NextBooks ==
  \/ \E insertBook \in FilterBooks : CallCreateBook(insertBook)
  \/ \E options \in GetBooksOptions : CallGetBooks(options)

SpecBooks == Init /\ [][NextBooks]_vars

\* ------------------------------------------------------------ searchBooks
\* a caller calls searchBooks; the store stays as it is
CallSearchBooks(query) ==
  /\ last.op \notin ReadOps
  /\ last' = Call("searchBooks", [query |-> query], [books |-> searchBooks(query)],
                  books # EmptyMap)
  /\ UNCHANGED <<requests, userVars, prefVars, bookVars, favVars, notifVars, viewVars,
                 authorVars, seriesVars, followVars, serviceStorage, now>>

\* the books created here: they differ in title and description
Titled(googleId, title, description) ==
  [googleId |-> googleId, title |-> title, author |-> <<"B", "o">>,
   description |-> description, categories |-> <<>>, ageRange |-> "6-8 years",
   isNew |-> FALSE]

TextBooks ==
  {Titled("g1", <<"D", "o", "g">>, <<>>),
   Titled("g2", <<CapitalPhi, CapitalOmega, CapitalSigma>>, <<>>),
   Titled("g3", <<"C", "a", "t">>, <<"a", " ", "D", "O", "G">>)}

\* the queries asked here
TextQueries ==
  {<<>>, <<"d", "o", "g">>, <<"D", "O", "G">>, <<"b", "O">>, <<"a", "t">>,
   <<CapitalSigma>>, <<SmallSigma>>, <<SmallFinalSigma>>}

NextText ==
  \/ \E insertBook \in TextBooks : CallCreateBook(insertBook)
  \/ \E query \in TextQueries : CallSearchBooks(query)

SpecText == Init /\ [][NextText]_vars

\* ------------------------------------------------------ notifications read
\* MemStorage.markNotificationAsRead: undefined without the row, else the row
\* with isRead: true, stored under its key
markNotificationAsReadReturn(id) ==
  IF id \notin DOMAIN notifications THEN Undefined
  ELSE Spread(notifications[id], [isRead |-> TRUE])

markNotificationAsRead(id) ==
  /\ notifications' =
       IF id \notin DOMAIN notifications THEN notifications
       ELSE MapSet(notifications, id, markNotificationAsReadReturn(id))
  /\ UNCHANGED notificationId

\* (mutant) every row is marked, whose ever it is
markAllNotificationsAsRead_EveryUser(uid) ==
  /\ notifications' =
       [k \in DOMAIN notifications |-> Spread(notifications[k], [isRead |-> TRUE])]
  /\ UNCHANGED notificationId

\* MemStorage.markAllNotificationsAsRead: every row of the user is stored again
\* under its own id with isRead: true
markAllNotificationsAsRead(uid) ==
  /\ notifications' =
       [k \in DOMAIN notifications |->
          IF notifications[k].userId = uid
          THEN Spread(notifications[k], [isRead |-> TRUE])
          ELSE notifications[k]]
  /\ UNCHANGED notificationId

CallMarkNotificationAsRead(id) ==
  /\ markNotificationAsRead(id)
  /\ last' = Call("markNotificationAsRead", [id |-> id],
                  markNotificationAsReadReturn(id), id \in DOMAIN notifications)
  /\ UNCHANGED <<requests, userVars, prefVars, bookVars, favVars, viewVars, authorVars,
                 seriesVars, followVars, serviceStorage, now>>

CallMarkAllNotificationsAsRead(uid) ==
  /\ markAllNotificationsAsRead(uid)
  /\ last' = Call("markAllNotificationsAsRead", [userId |-> uid], [value |-> TRUE],
                  \E k \in DOMAIN notifications : notifications[k].userId = uid)
  /\ UNCHANGED <<requests, userVars, prefVars, bookVars, favVars, viewVars, authorVars,
                 seriesVars, followVars, serviceStorage, now>>

\* the notifications callers create here: of two users, some with an isRead
\* field of their own
InsertNotifications ==
  {Merged([userId |-> uid, title |-> "New Book Release", message |-> <<"D", "o", "g">>,
           type |-> "book_release", bookId |-> 1], r) :
     uid \in Keys, r \in Given("isRead", {TRUE})}

\* the store's notification operations and the matcher, in any order
NextRead ==
  \/ \E notification \in InsertNotifications : CallCreateNotification(notification)
  \/ \E id \in 1..MaxNotifications : CallMarkNotificationAsRead(id)
  \/ \E uid \in Keys : CallMarkAllNotificationsAsRead(uid)
  \/ ServiceInit
  \/ CheckForNewBooks

SpecRead == Init /\ [][NextRead]_vars

\* ------------------------------------------------------- lookups by id
\* MemStorage.getUser, getAuthor, getBookSeriesById: map.get(id)
getUser(id) == IF id \in DOMAIN users THEN users[id] ELSE Undefined

getAuthor(id) == IF id \in DOMAIN authors THEN authors[id] ELSE Undefined

getBookSeriesById(id) == IF id \in DOMAIN bookSeries THEN bookSeries[id] ELSE Undefined

\* MemStorage.updateBook: undefined without the book, else { ...book,
\* ...bookUpdate } stored under the id
updateBookReturn(id, bookUpdate) ==
  IF id \notin DOMAIN books THEN Undefined ELSE Spread(books[id], bookUpdate)

\* (mutant) the update is stored whether or not the book exists
updateBook_Upsert(id, bookUpdate) ==
  /\ books' = MapSet(books, id,
                     IF id \in DOMAIN books THEN Spread(books[id], bookUpdate)
                     ELSE bookUpdate)
  /\ UNCHANGED bookId

updateBook(id, bookUpdate) ==
  /\ books' = IF id \notin DOMAIN books THEN books
              ELSE MapSet(books, id, updateBookReturn(id, bookUpdate))
  /\ UNCHANGED bookId

CallUpdateBook(id, bookUpdate) ==
  /\ updateBook(id, bookUpdate)
  /\ last' = Call("updateBook", [id |-> id, bookUpdate |-> bookUpdate],
                  updateBookReturn(id, bookUpdate), id \in DOMAIN books)
  /\ UNCHANGED <<requests, userVars, prefVars, favVars, notifVars, viewVars, authorVars,
                 seriesVars, followVars, serviceStorage, now>>

\* a caller calls one of the lookups; the store stays as it is
CallLookup(op, args, ret) ==
  /\ last' = Call(op, args, ret, ret # Undefined)
  /\ UNCHANGED <<requests, userVars, prefVars, bookVars, favVars, notifVars, viewVars,
                 authorVars, seriesVars, followVars, serviceStorage, now>>

CallGetUser(id) == CallLookup("getUser", [id |-> id], getUser(id))

CallGetBook(id) == CallLookup("getBook", [id |-> id], getBook(id))

CallGetBookByGoogleId(googleId) ==
  CallLookup("getBookByGoogleId", [googleId |-> googleId],
             getBookByGoogleId(books, googleId))

CallGetAuthor(id) == CallLookup("getAuthor", [id |-> id], getAuthor(id))

CallGetBookSeriesById(id) ==
  CallLookup("getBookSeriesById", [id |-> id], getBookSeriesById(id))

\* the ids asked for here: two that may be stored and one that never is
LookupIds == {1, 2, SeedAuthors + MaxNamed + MaxBooks}

\* the lookups and the updates between creations of books and notifications
NextLookup ==
  \/ CallCreateBook(Volume("g1", <<"D", "o", "g">>, FALSE))
  \/ \E notification \in MatcherNotifications : CallCreateNotification(notification)
  \/ \E id \in LookupIds : CallGetUser(id)
  \/ \E id \in LookupIds : CallGetBook(id)
  \/ \E googleId \in {"g1", "g2"} : CallGetBookByGoogleId(googleId)
  \/ \E id \in LookupIds : CallGetAuthor(id)
  \/ \E id \in LookupIds : CallGetBookSeriesById(id)
  \/ \E id \in LookupIds, bookUpdate \in {[isNew |-> TRUE], [title |-> <<"C", "a", "t">>]} :
       CallUpdateBook(id, bookUpdate)
  \/ \E uid \in LookupIds, prefsUpdate \in {[notificationsEnabled |-> FALSE], [userId |-> 2]} :
       CallUpdateUserPreferences(uid, prefsUpdate)
  \/ \E id \in LookupIds : CallMarkNotificationAsRead(id)

SpecLookup == Init /\ [][NextLookup]_vars

\* ------------------------------------------------- HTTP: authors and series
\* POST /api/authors: 400 on a body the schema rejects, 400 when an author of
\* the name is stored, else createAuthor and 201
\* (mutant) the handler without its "already exists" check
PostAuthorsStatus_NoNameCheck(body) == IF body = InvalidBody THEN 400 ELSE 201

PostAuthorsStatus(body) ==
  IF body = InvalidBody THEN 400
  ELSE IF getAuthorByName(body.name) # Undefined THEN 400
  ELSE 201

PostAuthors(body) ==
  /\ IF PostAuthorsStatus(body) = 201
     THEN /\ createAuthor(body)
          /\ last' = Call("POST /api/authors", body,
                          Response(201, Spread(body, [id |-> authorId])), FALSE)
     ELSE /\ UNCHANGED authorVars
          /\ last' = Call("POST /api/authors", body,
                          Response(PostAuthorsStatus(body), Undefined),
                          body # InvalidBody)
  /\ UNCHANGED <<requests, userVars, prefVars, bookVars, favVars, notifVars, viewVars,
                 seriesVars, followVars, serviceStorage, now>>

\* POST /api/series: the same with getBookSeriesByName and createBookSeries
PostSeriesStatus(body) ==
  IF body = InvalidBody THEN 400
  ELSE IF getBookSeriesByName(body.name) # Undefined THEN 400
  ELSE 201

PostSeries(body) ==
  /\ IF PostSeriesStatus(body) = 201
     THEN /\ createBookSeries(body)
          /\ last' = Call("POST /api/series", body,
                          Response(201, Spread(body, [id |-> bookSeriesId])), FALSE)
     ELSE /\ UNCHANGED seriesVars
          /\ last' = Call("POST /api/series", body,
                          Response(PostSeriesStatus(body), Undefined),
                          body # InvalidBody)
  /\ UNCHANGED <<requests, userVars, prefVars, bookVars, favVars, notifVars, viewVars,
                 authorVars, followVars, serviceStorage, now>>

\* request bodies: a seeded name, the same in another case, and new names
AuthorBodies ==
  {InvalidBody}
    \cup [name : {"Dr. Seuss", "dr. seuss", "Mo Willems", ""}, bio : {"A writer."}]

SeriesBodies ==
  {InvalidBody}
    \cup [name : {"Harry Potter", "harry potter", "Dog Man", ""},
          description : {"A series."}]

\* the two endpoints, one request at a time
NextNamed ==
  \/ \E body \in AuthorBodies : PostAuthors(body)
  \/ \E body \in SeriesBodies : PostSeries(body)

SpecNamed == Init /\ [][NextNamed]_vars

\* ------------------------------------- HTTP: favorites, requests in flight
\* POST /api/favorites as the event loop runs it: the handler runs from one
\* await to the next without interruption, and between two awaits of one
\* request the steps of another request may run.  A storage method has no
\* await of its own: it runs when it is called, and the handler continues with
\* its result later.  requests[r].at names the call whose result r awaits.
Responded(r, body, status, result, had) ==
  /\ requests' = [requests EXCEPT ![r] = [at |-> "responded", status |-> status]]
  /\ last' = Call("POST /api/favorites", body, Response(status, result), had)

Awaiting(r, state) ==
  /\ requests' = [requests EXCEPT ![r] = state]
  /\ UNCHANGED last

\* the request arrives: the body is parsed, getUserByUsername("demo") is called
PostFavoritesBegin(r, body) ==
  /\ requests[r].at \in {"idle", "responded"}
  /\ IF body = InvalidBody THEN Responded(r, body, 400, Undefined, FALSE)
     ELSE Awaiting(r, [at |-> "getUserByUsername", body |-> body,
                       user |-> getUserByUsername("demo")])
  /\ UNCHANGED <<userVars, prefVars, bookVars, favVars, notifVars, viewVars,
                 authorVars, seriesVars, followVars, serviceStorage, now>>

\* with the user: 404 without one, else the body's userId is overwritten and
\* getBook is called
PostFavoritesWithUser(r) ==
  /\ requests[r].at = "getUserByUsername"
  /\ IF requests[r].user = Undefined
     THEN Responded(r, requests[r].body, 404, Undefined, FALSE)
     ELSE Awaiting(r, [at |-> "getBook", body |-> requests[r].body,
                       favoriteData |-> [userId |-> requests[r].user.id,
                                         bookId |-> requests[r].body.bookId],
                       book |-> getBook(requests[r].body.bookId)])
  /\ UNCHANGED <<userVars, prefVars, bookVars, favVars, notifVars, viewVars,
                 authorVars, seriesVars, followVars, serviceStorage, now>>

\* with the book: 404 without one, else isFavorite is called
PostFavoritesWithBook(r) ==
  /\ requests[r].at = "getBook"
  /\ IF requests[r].book = Undefined
     THEN Responded(r, requests[r].body, 404, Undefined, FALSE)
     ELSE Awaiting(r, [at |-> "isFavorite", body |-> requests[r].body,
                       favoriteData |-> requests[r].favoriteData,
                       isAlreadyFavorite |->
                         isFavorite(requests[r].favoriteData.userId,
                                    requests[r].favoriteData.bookId)])
  /\ UNCHANGED <<userVars, prefVars, bookVars, favVars, notifVars, viewVars,
                 authorVars, seriesVars, followVars, serviceStorage, now>>

\* with the answer of isFavorite: 400 when it was true, else addFavorite is
\* called and stores its row
PostFavoritesWithIsFavorite(r) ==
  /\ requests[r].at = "isFavorite"
  /\ IF requests[r].isAlreadyFavorite
     THEN /\ Responded(r, requests[r].body, 400, Undefined, TRUE)
          /\ UNCHANGED favVars
     ELSE /\ favoriteId <= MaxRows
          /\ addFavorite(requests[r].favoriteData)
          /\ Awaiting(r, [at |-> "addFavorite", body |-> requests[r].body,
                          favorite |-> addFavoriteRow(requests[r].favoriteData)])
  /\ UNCHANGED <<userVars, prefVars, bookVars, notifVars, viewVars, authorVars,
                 seriesVars, followVars, serviceStorage, now>>

\* with the stored row: 201
PostFavoritesWithFavorite(r) ==
  /\ requests[r].at = "addFavorite"
  /\ Responded(r, requests[r].body, 201, requests[r].favorite, FALSE)
  /\ UNCHANGED <<userVars, prefVars, bookVars, favVars, notifVars, viewVars,
                 authorVars, seriesVars, followVars, serviceStorage, now>>

\* requests for stored books arriving at any time, each continuing at any time
NextRace ==
  \/ CallCreateBook(Volume("g1", <<"D", "o", "g">>, FALSE))
  \/ \E r \in 1..MaxRequests, body \in FavoriteBodies : PostFavoritesBegin(r, body)
  \/ \E r \in 1..MaxRequests : PostFavoritesWithUser(r)
  \/ \E r \in 1..MaxRequests : PostFavoritesWithBook(r)
  \/ \E r \in 1..MaxRequests : PostFavoritesWithIsFavorite(r)
  \/ \E r \in 1..MaxRequests : PostFavoritesWithFavorite(r)

SpecRace == Init /\ [][NextRace]_vars

\* ---------------------------------------- HTTP: search, requests in flight
\* GET /api/books/search as the event loop runs it, from one await to the next.
\* requests[r].books is the handler's list "books" (the ids of its elements),
\* requests[r].rest the external records from the one in hand on.
SearchResponded(r, status, result) ==
  /\ requests' = [requests EXCEPT ![r] = [at |-> "responded", status |-> status]]
  /\ last' = Call("GET /api/books/search", [request |-> r],
                  Response(status, [books |-> result]), FALSE)

\* the loop "for (const bookData of googleBooks)" comes to the records rest:
\* getBookByGoogleId is called for the first, and without one the list is sent
SearchLoop(r, found, rest) ==
  IF rest = <<>> THEN SearchResponded(r, 200, found)
  ELSE Awaiting(r, [at |-> "getBookByGoogleId", books |-> found, rest |-> rest,
                    existingBook |-> getBookByGoogleId(books, Head(rest).googleId)])

\* the request arrives: 400 without a query, else searchBooks is called
SearchBegin(r, query) ==
  /\ requests[r].at \in {"idle", "responded"}
  /\ IF query = <<>> THEN SearchResponded(r, 400, <<>>)
     ELSE Awaiting(r, [at |-> "searchBooks", books |-> searchBooks(query)])
  /\ UNCHANGED <<userVars, prefVars, bookVars, favVars, notifVars, viewVars,
                 authorVars, seriesVars, followVars, serviceStorage, now>>

\* with the local result: five books or more are sent as they are, fewer have
\* fetchBooksFromGoogle called
SearchWithLocal(r) ==
  /\ requests[r].at = "searchBooks"
  /\ IF Len(requests[r].books) < SupplementBelow
     THEN Awaiting(r, [at |-> "fetchBooksFromGoogle", books |-> requests[r].books])
     ELSE SearchResponded(r, 200, requests[r].books)
  /\ UNCHANGED <<userVars, prefVars, bookVars, favVars, notifVars, viewVars,
                 authorVars, seriesVars, followVars, serviceStorage, now>>

\* the external source answers: a throw is caught and the local result sent,
\* else the loop begins
SearchWithFetched(r, googleBooks) ==
  /\ requests[r].at = "fetchBooksFromGoogle"
  /\ IF googleBooks.threw THEN SearchResponded(r, 200, requests[r].books)
     ELSE SearchLoop(r, requests[r].books, googleBooks.items)
  /\ UNCHANGED <<userVars, prefVars, bookVars, favVars, notifVars, viewVars,
                 authorVars, seriesVars, followVars, serviceStorage, now>>

\* with the answer of getBookByGoogleId: a stored book is skipped, else
\* createBook is called and stores the record
SearchWithExisting(r) ==
  /\ requests[r].at = "getBookByGoogleId"
  /\ IF requests[r].existingBook # Undefined
     THEN /\ SearchLoop(r, requests[r].books, Tail(requests[r].rest))
          /\ UNCHANGED bookVars
     ELSE /\ createBook(Head(requests[r].rest))
          /\ Awaiting(r, [at |-> "createBook", books |-> requests[r].books,
                          rest |-> requests[r].rest, newBook |-> bookId])
  /\ UNCHANGED <<userVars, prefVars, favVars, notifVars, viewVars, authorVars,
                 seriesVars, followVars, serviceStorage, now>>

\* with the stored book: it is pushed on the list and the loop goes on
SearchWithNewBook(r) ==
  /\ requests[r].at = "createBook"
  /\ SearchLoop(r, Append(requests[r].books, requests[r].newBook),
                Tail(requests[r].rest))
  /\ UNCHANGED <<userVars, prefVars, bookVars, favVars, notifVars, viewVars,
                 authorVars, seriesVars, followVars, serviceStorage, now>>

\* the external answers here: lists of at most MaxExt records of two googleIds
RaceAnswers ==
  {Fetched(l) : l \in ListsUpTo({Volume(g, <<"D", "o", "g">>, FALSE) : g \in {"g1", "g2"}},
                                MaxExt)}
    \cup {FetchError}

\* search requests arriving at any time, each continuing at any time
NextSearchRace ==
  \/ \E r \in 1..MaxRequests, query \in {<<>>, <<"d", "o", "g">>} : SearchBegin(r, query)
  \/ \E r \in 1..MaxRequests : SearchWithLocal(r)
  \/ \E r \in 1..MaxRequests, googleBooks \in RaceAnswers : SearchWithFetched(r, googleBooks)
  \/ \E r \in 1..MaxRequests : SearchWithExisting(r)
  \/ \E r \in 1..MaxRequests : SearchWithNewBook(r)

SpecSearchRace == Init /\ [][NextSearchRace]_vars

\* ------------------------------- following and viewing, calls in flight
\* A caller calls a store operation and continues with the result later.  The
\* operation has no await: its check and its write run when it is called.
FollowSeriesCalled(r, follow) ==
  /\ requests[r].at \in {"idle", "responded"}
  /\ followSeries(follow)
  /\ Awaiting(r, [at |-> "followSeries", args |-> follow,
                  value |-> followSeriesReturn(follow)])
  /\ UNCHANGED <<userVars, prefVars, bookVars, favVars, notifVars, viewVars,
                 authorVars, seriesVars, followingAuthors, followingAuthorId,
                 followingCategories, followingCategoryId, serviceStorage, now>>

FollowCategoryCalled(r, follow) ==
  /\ requests[r].at \in {"idle", "responded"}
  /\ followCategory(follow)
  /\ Awaiting(r, [at |-> "followCategory", args |-> follow,
                  value |-> followCategoryReturn(follow)])
  /\ UNCHANGED <<userVars, prefVars, bookVars, favVars, notifVars, viewVars,
                 authorVars, seriesVars, followingAuthors, followingAuthorId,
                 followingSeries, followingSeriesId, serviceStorage, now>>

AddRecentlyViewedCalled(r, viewed) ==
  /\ requests[r].at \in {"idle", "responded"}
  /\ addRecentlyViewed(viewed)
  /\ Awaiting(r, [at |-> "addRecentlyViewed", args |-> viewed,
                  value |-> addRecentlyViewedReturn(viewed)])
  /\ UNCHANGED <<userVars, prefVars, bookVars, favVars, notifVars, authorVars,
                 seriesVars, followVars, serviceStorage, now>>

\* the caller continues with the result
StoreCallReturned(r) ==
  /\ requests[r].at \in {"followSeries", "followCategory", "addRecentlyViewed"}
  /\ requests' = [requests EXCEPT ![r] = [at |-> "responded", status |-> 200]]
  /\ last' = Call(requests[r].at, requests[r].args, requests[r].value, TRUE)
  /\ UNCHANGED <<userVars, prefVars, bookVars, favVars, notifVars, viewVars,
                 authorVars, seriesVars, followVars, serviceStorage, now>>

\* POST /api/following/authors from one await to the next: the body is parsed
\* and getUserByUsername("demo") called; with the user, getAuthor is called;
\* with the author, followAuthor is called; with its row, 201 is sent
PostFollowingAuthorsResponded(r, status, result) ==
  /\ requests' = [requests EXCEPT ![r] = [at |-> "responded", status |-> status]]
  /\ last' = Call("POST /api/following/authors", requests[r].args,
                  Response(status, result), FALSE)

PostFollowingAuthorsBegin(r, body) ==
  /\ requests[r].at \in {"idle", "responded"}
  /\ IF body = InvalidBody
     THEN /\ requests' = [requests EXCEPT ![r] = [at |-> "responded", status |-> 400]]
          /\ last' = Call("POST /api/following/authors", body,
                          Response(400, Undefined), FALSE)
     ELSE Awaiting(r, [at |-> "following: getUserByUsername", args |-> body,
                       user |-> getUserByUsername("demo")])
  /\ UNCHANGED <<userVars, prefVars, bookVars, favVars, notifVars, viewVars,
                 authorVars, seriesVars, followVars, serviceStorage, now>>

PostFollowingAuthorsWithUser(r) ==
  /\ requests[r].at = "following: getUserByUsername"
  /\ IF requests[r].user = Undefined
     THEN PostFollowingAuthorsResponded(r, 404, Undefined)
     ELSE Awaiting(r, [at |-> "following: getAuthor", args |-> requests[r].args,
                       followData |-> [userId |-> requests[r].user.id,
                                       authorId |-> requests[r].args.authorId],
                       author |-> getAuthor(requests[r].args.authorId)])
  /\ UNCHANGED <<userVars, prefVars, bookVars, favVars, notifVars, viewVars,
                 authorVars, seriesVars, followVars, serviceStorage, now>>

PostFollowingAuthorsWithAuthor(r) ==
  /\ requests[r].at = "following: getAuthor"
  /\ IF requests[r].author = Undefined
     THEN /\ PostFollowingAuthorsResponded(r, 404, Undefined)
          /\ UNCHANGED <<followingAuthors, followingAuthorId>>
     ELSE /\ followAuthor(requests[r].followData)
          /\ Awaiting(r, [at |-> "followAuthor", args |-> requests[r].args,
                          followData |-> requests[r].followData,
                          followEntry |-> followAuthorReturn(requests[r].followData)])
  /\ UNCHANGED <<userVars, prefVars, bookVars, favVars, notifVars, viewVars,
                 authorVars, seriesVars, followingSeries, followingSeriesId,
                 followingCategories, followingCategoryId, serviceStorage, now>>

PostFollowingAuthorsWithEntry(r) ==
  /\ requests[r].at = "followAuthor"
  /\ PostFollowingAuthorsResponded(r, 201, requests[r].followEntry)
  /\ UNCHANGED <<userVars, prefVars, bookVars, favVars, notifVars, viewVars,
                 authorVars, seriesVars, followVars, serviceStorage, now>>

\* request bodies: author 1, which is stored, and one that is not
FollowingAuthorBodies ==
  {InvalidBody} \cup [userId : {2}, authorId : {1, SeedAuthors + MaxNamed + 1}]

\* callers of the four operations, each operation for one pair, at any time
NextConcurrent ==
  \/ \E r \in 1..MaxRequests : FollowSeriesCalled(r, [userId |-> 1, seriesId |-> 1])
  \/ \E r \in 1..MaxRequests : FollowCategoryCalled(r, [userId |-> 1, category |-> Fantasy])
  \/ \E r \in 1..MaxRequests : AddRecentlyViewedCalled(r, [userId |-> 1, bookId |-> 1])
  \/ \E r \in 1..MaxRequests : StoreCallReturned(r)
  \/ \E r \in 1..MaxRequests, body \in FollowingAuthorBodies :
       PostFollowingAuthorsBegin(r, body)
  \/ \E r \in 1..MaxRequests : PostFollowingAuthorsWithUser(r)
  \/ \E r \in 1..MaxRequests : PostFollowingAuthorsWithAuthor(r)
  \/ \E r \in 1..MaxRequests : PostFollowingAuthorsWithEntry(r)

SpecConcurrent == Init /\ [][NextConcurrent]_vars

\* ------------------------------------------------- NotificationService timers
\* setupCronJob: the daily cron callback and the startup timer each call
\* checkForNewBooks, and neither looks whether a run is under way. A run goes
\* on without a break up to its first await that waits; the call of
\* this.storage.getNewReleases() throws before anything is awaited, so the run
\* is over, its catch block included, when the callback returns. A run on a
\* storage that had the method would wait there, in a slot of its own.
MatcherRunning(r) == requests[r].at = "getNewReleases"

Fires(callback) ==
  LET created == CreateAll(checkForNewBooksCreates, notifications, notificationId)
      run == IF last.op \in {"cron", "setTimeout"} THEN last.ret.run + 1 ELSE 1
  IN /\ serviceStorage = "set"
     /\ run <= MaxRuns
     /\ \E r \in 1..MaxRequests :
          /\ requests[r].at = "idle"
          /\ IF checkForNewBooksOutcome = "done"
             THEN /\ requests' = [requests EXCEPT ![r] = [at |-> "getNewReleases"]]
                  /\ UNCHANGED notifVars
                  /\ last' = Call(callback, NoArgs,
                                  [outcome |-> "awaiting", run |-> run, created |-> 0],
                                  \E o \in 1..MaxRequests : MatcherRunning(o))
             ELSE /\ created.notificationId <= MaxNotifications + 1
                  /\ notifications' = created.notifications
                  /\ notificationId' = created.notificationId
                  /\ last' = Call(callback, NoArgs,
                                  [outcome |-> checkForNewBooksOutcome, run |-> run,
                                   created |-> created.notificationId - notificationId],
                                  \E o \in 1..MaxRequests : MatcherRunning(o))
                  /\ UNCHANGED requests
     /\ UNCHANGED <<userVars, prefVars, bookVars, favVars, viewVars, authorVars,
                    seriesVars, followVars, serviceStorage, now>>

\* cron.schedule('0 0 * * *', ...): the daily callback
CronFires == Fires("cron")

\* setTimeout(..., 10000): the startup callback; init may be called again and
\* sets another timer without clearing the one before
TimerFires == Fires("setTimeout")

NextTimers ==
  \/ ServiceInit
  \/ CronFires
  \/ TimerFires
  \/ \E insertBook \in MatcherBooks : CallCreateBook(insertBook)
  \/ \E prefsUpdate \in MatcherPreferences : CallUpdateUserPreferences(1, prefsUpdate)
  \/ \E notification \in MatcherNotifications : CallCreateNotification(notification)

SpecTimers == Init /\ [][NextTimers]_vars

\* -------------------------------------------------- recently viewed, read
\* Array.prototype.sort with (a, b) => b.viewedAt - a.viewedAt: a stable sort,
\* later timestamps first, rows of one timestamp in the order they had.  Here
\* one row is put into a sorted list, behind every row that is not older.
RECURSIVE InsertByViewedAt(_, _)
InsertByViewedAt(sorted, k) ==
  IF sorted = <<>> THEN <<k>>
  ELSE IF recentlyViewed[Head(sorted)].viewedAt >= recentlyViewed[k].viewedAt
       THEN <<Head(sorted)>> \o InsertByViewedAt(Tail(sorted), k)
       ELSE <<k>> \o sorted

RECURSIVE SortByViewedAt(_)
SortByViewedAt(keys) ==
  IF keys = <<>> THEN <<>>
  ELSE InsertByViewedAt(SortByViewedAt(SubSeq(keys, 1, Len(keys) - 1)), keys[Len(keys)])

\* the limit parameter, given as a record with or without the field: 10 when
\* the caller gives none
getRecentlyViewedLimit(given) ==
  IF "limit" \in DOMAIN given THEN given.limit ELSE RecentlyViewedLimit

\* MemStorage.getRecentlyViewed: the keys of the user's rows, in the order of
\* the map (the order in which the rows were first inserted), sorted, cut to
\* the limit
getRecentlyViewedEntries(uid, given) ==
  Slice(SortByViewedAt(KeysInOrder({k \in DOMAIN recentlyViewed :
                                      recentlyViewed[k].userId = uid})),
        0, getRecentlyViewedLimit(given))

\* each row's book, the rows without a stored book left out
getRecentlyViewed(uid, given) ==
  LET entries == getRecentlyViewedEntries(uid, given)
      stored == SelectSeq(entries, LAMBDA k : recentlyViewed[k].bookId \in DOMAIN books)
  IN [i \in 1..Len(stored) |-> books[recentlyViewed[stored[i]].bookId]]

CallGetRecentlyViewed(uid, given) ==
  /\ last' = Call("getRecentlyViewed",
                  [userId |-> uid, limit |-> getRecentlyViewedLimit(given)],
                  [books |-> getRecentlyViewed(uid, given)],
                  \E k \in DOMAIN recentlyViewed : recentlyViewed[k].userId = uid)
  /\ UNCHANGED <<requests, userVars, prefVars, bookVars, favVars, notifVars, viewVars,
                 authorVars, seriesVars, followVars, serviceStorage, now>>

\* the limits callers give: none, or a number
RecentLimits == Given("limit", {0, 1, 2})

\* the books viewed here: one record, stored up to two times
RecentBooks == {Volume("g1", <<"D", "o", "g">>, FALSE)}

\* addRecentlyViewed and getRecentlyViewed called in any order, one at a time,
\* for stored books and others, while the clock moves on or stands still
NextRecent ==
  \/ \E insertBook \in RecentBooks : bookId <= 2 /\ CallCreateBook(insertBook)
  \/ \E uid \in Keys, bid \in Keys :
       CallAddRecentlyViewed([userId |-> uid, bookId |-> bid])
  \/ \E uid \in Keys, given \in RecentLimits : CallGetRecentlyViewed(uid, given)
  \/ Tick

SpecRecent == Init /\ [][NextRecent]_vars

\* --------------------------------------------------- the 3-hourly cron job
\* cron.schedule('0 */3 * * *', ...): "Check if the book matches user
\* preferences"; an empty list of preferences matches every book
matchesCategories(prefs, newBook) ==
  \/ Len(prefs.preferredCategories) = 0
  \/ \E i \in 1..Len(prefs.preferredCategories) :
       \E j \in 1..Len(newBook.categories) :
         newBook.categories[j] = prefs.preferredCategories[i]

matchesAgeRange(prefs, newBook) ==
  \/ Len(prefs.preferredAgeRanges) = 0
  \/ \E i \in 1..Len(prefs.preferredAgeRanges) :
       prefs.preferredAgeRanges[i] = newBook.ageRange

\* (mutant) one of the two tests is enough
JobMatches_Either(prefs, newBook) ==
  matchesCategories(prefs, newBook) \/ matchesAgeRange(prefs, newBook)

\* "if (matchesCategories && matchesAgeRange)"
JobMatches(prefs, newBook) ==
  matchesCategories(prefs, newBook) /\ matchesAgeRange(prefs, newBook)

\* the notification the job creates for the user and the picked book
JobNotification(uid, newBook) ==
  [userId |-> uid, title |-> "New Book Release",
   message |-> <<"\"">> \o newBook.title
                 \o <<"\"", " is now available in your preferred category!">>,
   type |-> "book_release", bookId |-> newBook.id]

\* the users the job goes through: those stored under the ids below the next
\* user id, each with the preferences row getUserPreferences finds; the
\* callback of forEach goes on for those with a row that has
\* notificationsEnabled
JobUsers ==
  KeysInOrder({u \in DOMAIN users :
                 /\ u < userId
                 /\ getUserPreferences(userPreferences, u) # Undefined
                 /\ getUserPreferences(userPreferences, u).notificationsEnabled})

\* getBooks({ limit: 100 }): the rows it returns
JobBooks == [i \in 1..Len(getBooks([limit |-> 100])) |-> books[getBooks([limit |-> 100])[i]]]

\* the job fires: the users and their preferences are read, and the callback of
\* each user with notifications enabled runs up to "await storage.getBooks"
JobFires ==
  /\ \A r \in 1..MaxRequests : requests[r].at = "idle"
  /\ Len(JobUsers) <= MaxRequests
  /\ requests' = [r \in 1..MaxRequests |->
                    IF r <= Len(JobUsers)
                    THEN [at |-> "getBooks", user |-> JobUsers[r],
                          prefs |-> getUserPreferences(userPreferences, JobUsers[r]),
                          books |-> JobBooks]
                    ELSE requests[r]]
  /\ last' = Call("job", NoArgs, [callbacks |-> Len(JobUsers)], FALSE)
  /\ UNCHANGED <<userVars, prefVars, bookVars, favVars, notifVars, viewVars, authorVars,
                 seriesVars, followVars, serviceStorage, now>>

\* a callback goes on with the books: it returns when there are none, else it
\* picks one at random and, when the book matches, calls createNotification
JobWithBooks(r) ==
  /\ requests[r].at = "getBooks"
  /\ IF requests[r].books = <<>>
     THEN /\ requests' = [requests EXCEPT ![r] = [at |-> "idle"]]
          /\ last' = Call("job: getBooks", [userId |-> requests[r].user],
                          [picked |-> FALSE, matches |-> FALSE], FALSE)
          /\ UNCHANGED notifVars
     ELSE \E randomIndex \in 1..Len(requests[r].books) :
            LET newBook == requests[r].books[randomIndex]
            IN IF JobMatches(requests[r].prefs, newBook)
               THEN /\ createNotification(JobNotification(requests[r].user, newBook))
                    /\ requests' = [requests EXCEPT ![r] =
                                      [at |-> "createNotification",
                                       user |-> requests[r].user, newBook |-> newBook]]
                    /\ last' = Call("job: createNotification",
                                    [userId |-> requests[r].user, bookId |-> newBook.id],
                                    [picked |-> TRUE, matches |-> TRUE],
                                    \E k \in DOMAIN notifications :
                                      /\ notifications[k].userId = requests[r].user
                                      /\ notifications[k].bookId = newBook.id)
               ELSE /\ requests' = [requests EXCEPT ![r] = [at |-> "idle"]]
                    /\ last' = Call("job: getBooks",
                                    [userId |-> requests[r].user, bookId |-> newBook.id],
                                    [picked |-> TRUE, matches |-> FALSE], FALSE)
                    /\ UNCHANGED notifVars
  /\ UNCHANGED <<userVars, prefVars, bookVars, favVars, viewVars, authorVars,
                 seriesVars, followVars, serviceStorage, now>>

\* a callback goes on after createNotification: "Mark the book as new"
JobWithNotification(r) ==
  /\ requests[r].at = "createNotification"
  /\ updateBook(requests[r].newBook.id, [isNew |-> TRUE])
  /\ requests' = [requests EXCEPT ![r] = [at |-> "idle"]]
  /\ last' = Call("job: updateBook",
                  [userId |-> requests[r].user, bookId |-> requests[r].newBook.id],
                  updateBookReturn(requests[r].newBook.id, [isNew |-> TRUE]),
                  books[requests[r].newBook.id].isNew)
  /\ UNCHANGED <<userVars, prefVars, favVars, notifVars, viewVars, authorVars,
                 seriesVars, followVars, serviceStorage, now>>

\* the books in the store of the job: of the category "Fantasy" and the age
\* range "9-12 years", which match the default preferences and fail the age
\* range test of the other preferences here
PickedBooks == {BookOf("g1", <<"Fantasy">>, "9-12 years", FALSE)}

\* the bodies of PUT /api/preferences requests here
JobBodies ==
  {[userId |-> 1, preferredCategories |-> <<"Fantasy">>,
    preferredAgeRanges |-> <<"6-8 years">>, notificationsEnabled |-> e] :
     e \in {TRUE, FALSE}}

\* the job, its callbacks taking turns, between createBook and createUser calls
\* and PUT /api/preferences requests
NextJob ==
  \/ JobFires
  \/ \E r \in 1..MaxRequests : JobWithBooks(r)
  \/ \E r \in 1..MaxRequests : JobWithNotification(r)
  \/ \E insertBook \in PickedBooks : bookId <= MaxPicked /\ CallCreateBook(insertBook)
  \/ \E insertUser \in {u \in InsertUsers : u.username = "amy"} :
       userId <= MaxRequests /\ CallCreateUser(insertUser)
  \/ \E body \in JobBodies : PutPreferences(body)

SpecJob == Init /\ [][NextJob]_vars

\* ------------------------------------------------------ both scheduled jobs
\* the runs of the matcher and of the 3-hourly job, one after the other: a run
\* starts when no callback of an earlier run is under way; createBook calls and
\* PUT /api/preferences requests come at any time
NextJobs ==
  \/ ServiceInit
  \/ (\A r \in 1..MaxRequests : requests[r].at = "idle") /\ CheckForNewBooks
  \/ JobFires
  \/ \E r \in 1..MaxRequests : JobWithBooks(r)
  \/ \E r \in 1..MaxRequests : JobWithNotification(r)
  \/ \E insertBook \in PickedBooks \cup MatcherBooks :
       bookId <= MaxPicked /\ CallCreateBook(insertBook)
  \/ \E body \in JobBodies : PutPreferences(body)

SpecJobs == Init /\ [][NextJobs]_vars

\* ---------------------------------------------------- notifications unread
\* (mutant) every notification of the user is counted, read or not
getUnreadNotificationCount_All(m, uid) ==
  Cardinality({k \in DOMAIN m : m[k].userId = uid})

\* MemStorage.getUnreadNotificationCount on the map m: the rows of the user
\* with "!notification.isRead"
getUnreadNotificationCount(m, uid) ==
  Cardinality({k \in DOMAIN m : m[k].userId = uid /\ ~m[k].isRead})

CallGetUnreadNotificationCount(uid) ==
  /\ last' = Call("getUnreadNotificationCount", [userId |-> uid],
                  [value |-> getUnreadNotificationCount(notifications, uid)],
                  \E k \in DOMAIN notifications : notifications[k].userId = uid)
  /\ UNCHANGED <<requests, userVars, prefVars, bookVars, favVars, notifVars, viewVars,
                 authorVars, seriesVars, followVars, serviceStorage, now>>

\* the store's notification operations, in any order, one at a time
NextUnread ==
  \/ \E notification \in InsertNotifications : CallCreateNotification(notification)
  \/ \E id \in 1..MaxNotifications : CallMarkNotificationAsRead(id)
  \/ \E uid \in Keys : CallMarkAllNotificationsAsRead(uid)
  \/ \E uid \in Keys : CallGetUnreadNotificationCount(uid)

SpecUnread == Init /\ [][NextUnread]_vars

\* ------------------------------------------- HTTP: viewing and following
\* POST /api/recently-viewed: 400 on a body the schema rejects, 404 without the
\* demo user or the book, else addRecentlyViewed and 201.  The body's userId
\* is overwritten with the demo user's id.
\* (mutant) the handler without its "Check if book exists"
PostRecentlyViewedStatus_NoBookCheck(body) ==
  IF body = InvalidBody THEN 400
  ELSE IF getUserByUsername("demo") = Undefined THEN 404
  ELSE 201

PostRecentlyViewedStatus(body) ==
  IF body = InvalidBody THEN 400
  ELSE IF getUserByUsername("demo") = Undefined THEN 404
  ELSE IF getBook(body.bookId) = Undefined THEN 404
  ELSE 201

PostRecentlyViewed(body) ==
  LET viewData == [userId |-> getUserByUsername("demo").id, bookId |-> body.bookId]
  IN /\ IF PostRecentlyViewedStatus(body) = 201
        THEN /\ addRecentlyViewed(viewData)
             /\ last' = Call("POST /api/recently-viewed", body,
                             Response(201, addRecentlyViewedReturn(viewData)), FALSE)
        ELSE /\ UNCHANGED viewVars
             /\ last' = Call("POST /api/recently-viewed", body,
                             Response(PostRecentlyViewedStatus(body), Undefined), FALSE)
     /\ UNCHANGED <<requests, userVars, prefVars, bookVars, favVars, notifVars, authorVars,
                    seriesVars, followVars, serviceStorage, now>>

\* POST /api/following/authors, one request at a time: 400, 404 without the
\* demo user or the author, else followAuthor and 201
PostFollowingAuthorsStatus(body) ==
  IF body = InvalidBody THEN 400
  ELSE IF getUserByUsername("demo") = Undefined THEN 404
  ELSE IF getAuthor(body.authorId) = Undefined THEN 404
  ELSE 201

PostFollowingAuthors(body) ==
  LET followData == [userId |-> getUserByUsername("demo").id, authorId |-> body.authorId]
  IN /\ IF PostFollowingAuthorsStatus(body) = 201
        THEN /\ followAuthor(followData)
             /\ last' = Call("POST /api/following/authors", body,
                             Response(201, followAuthorReturn(followData)), FALSE)
        ELSE /\ UNCHANGED <<followingAuthors, followingAuthorId>>
             /\ last' = Call("POST /api/following/authors", body,
                             Response(PostFollowingAuthorsStatus(body), Undefined), FALSE)
     /\ UNCHANGED <<requests, userVars, prefVars, bookVars, favVars, notifVars, viewVars,
                    authorVars, seriesVars, followingSeries, followingSeriesId,
                    followingCategories, followingCategoryId, serviceStorage, now>>

\* POST /api/following/series: 400, 404 without the demo user or the series,
\* else followSeries and 201
PostFollowingSeriesStatus(body) ==
  IF body = InvalidBody THEN 400
  ELSE IF getUserByUsername("demo") = Undefined THEN 404
  ELSE IF getBookSeriesById(body.seriesId) = Undefined THEN 404
  ELSE 201

PostFollowingSeries(body) ==
  LET followData == [userId |-> getUserByUsername("demo").id, seriesId |-> body.seriesId]
  IN /\ IF PostFollowingSeriesStatus(body) = 201
        THEN /\ followSeries(followData)
             /\ last' = Call("POST /api/following/series", body,
                             Response(201, followSeriesReturn(followData)), FALSE)
        ELSE /\ UNCHANGED <<followingSeries, followingSeriesId>>
             /\ last' = Call("POST /api/following/series", body,
                             Response(PostFollowingSeriesStatus(body), Undefined), FALSE)
     /\ UNCHANGED <<requests, userVars, prefVars, bookVars, favVars, notifVars, viewVars,
                    authorVars, seriesVars, followingAuthors, followingAuthorId,
                    followingCategories, followingCategoryId, serviceStorage, now>>

\* request bodies: the targets 1 and 2 for books, a seeded and a missing id for
\* authors and series
BookBodies == {InvalidBody} \cup [userId : {2}, bookId : Keys]

FollowingSeriesBodies ==
  {InvalidBody} \cup [userId : {2}, seriesId : {1, SeedSeries + MaxNamed + 1}]

\* the four POST endpoints that create rows naming a book, an author or a
\* series, between createBook calls, one request at a time
NextPosts ==
  \/ \E insertBook \in RecentBooks : bookId <= MaxPicked /\ CallCreateBook(insertBook)
  \/ \E body \in BookBodies : PostFavorites(body)
  \/ \E body \in BookBodies : PostRecentlyViewed(body)
  \/ \E body \in FollowingAuthorBodies : PostFollowingAuthors(body)
  \/ \E body \in FollowingSeriesBodies : PostFollowingSeries(body)

SpecPosts == Init /\ [][NextPosts]_vars

\* ------------------------------------------------------------ the program
\* every operation, handler and run modelled here, in any order
Next ==
  \/ NextFav
  \/ NextHttpFav
  \/ NextFollow
  \/ NextViewed
  \/ NextUser
  \/ NextSearch
  \/ NextMatcher
  \/ NextIds
  \/ NextBooks
  \/ NextPosts
  \/ NextUnread
  \/ NextJobs
  \/ NextJob
  \/ NextRecent
  \/ NextTimers
  \/ NextConcurrent
  \/ NextSearchRace
  \/ NextRace
  \/ NextNamed
  \/ NextLookup
  \/ NextRead
  \/ NextText

Spec == Init /\ [][Next]_vars

\* ------------------------------------------------------- claims C1 and C2
\* the pair a favorites call names
LastPairKeys(m) == FavoriteKeys(m, last.args.userId, last.args.bookId)

\* C1: two addFavorite calls in a row with the same (userId, bookId), the first
\* made when no Favorite of the pair was stored, leave exactly one Favorite row
\* of the pair, and isFavorite is true after the first call and after the second.
C1_AddFavoriteTwiceOneRow ==
  [][ ( /\ last.op = "addFavorite"
        /\ ~last.had
        /\ last'.op = "addFavorite"
        /\ last'.args = last.args
        /\ favoriteId' = favoriteId + 1 )
      => ( /\ LastPairKeys(favorites) # {}
           /\ Cardinality(LastPairKeys(favorites')) = 1 ) ]_vars

\* C2: removeFavorite(userId, bookId) returns false and leaves the favorites
\* unchanged when no Favorite of the pair is stored; when one is stored it
\* returns true and isFavorite(userId, bookId) is false directly afterwards.
C2_RemoveFavorite ==
  [][ (last' # last /\ last'.op = "removeFavorite")
      => IF FavoriteKeys(favorites, last'.args.userId, last'.args.bookId) = {}
         THEN last'.ret = FALSE /\ favorites' = favorites
         ELSE /\ last'.ret = TRUE
              /\ FavoriteKeys(favorites', last'.args.userId, last'.args.bookId) = {} ]_vars

\* --------------------------------------------------------------- claim C3
\* at most one row of the map m for each (userId, bookId)
OnePerPair(m) ==
  \A j \in DOMAIN m, k \in DOMAIN m :
    (m[j].userId = m[k].userId /\ m[j].bookId = m[k].bookId) => j = k

\* C3: under POST /api/favorites and DELETE /api/favorites/:bookId requests
\* handled one at a time the favorites hold at most one Favorite for each
\* (userId, bookId), and a POST for a book that is a favorite already creates
\* no row (favorites and the id counter stay as they are).
C3_OneFavoritePerPair ==
  [][ /\ OnePerPair(favorites')
      /\ ( ( /\ last' # last
             /\ last'.op = "POST /api/favorites"
             /\ last'.args # InvalidBody
             /\ isFavorite(getUserByUsername("demo").id, last'.args.bookId) )
           => (favorites' = favorites /\ favoriteId' = favoriteId) ) ]_vars

\* a POST for a stored book that was a favorite already has been answered
C3_Witness ==
  /\ last.op = "POST /api/favorites"
  /\ last.had
  /\ last.ret.status = 400
  /\ getBook(last.args.bookId) # Undefined
  /\ favorites # EmptyMap

\* --------------------------------------------------------------- claim C6
\* at most one row of each following collection for each (userId, target)
OneFollowPerPair ==
  /\ \A j \in DOMAIN followingAuthors, k \in DOMAIN followingAuthors :
       ( /\ followingAuthors[j].userId = followingAuthors[k].userId
         /\ followingAuthors[j].authorId = followingAuthors[k].authorId ) => j = k
  /\ \A j \in DOMAIN followingSeries, k \in DOMAIN followingSeries :
       ( /\ followingSeries[j].userId = followingSeries[k].userId
         /\ followingSeries[j].seriesId = followingSeries[k].seriesId ) => j = k
  /\ \A j \in DOMAIN followingCategories, k \in DOMAIN followingCategories :
       ( /\ followingCategories[j].userId = followingCategories[k].userId
         /\ followingCategories[j].category = followingCategories[k].category ) => j = k

\* the rows of the pair a follow call names, in the collection it is about
FollowCallKeys(call) ==
  IF call.op = "followAuthor"
  THEN {followingAuthors[k] :
          k \in AuthorFollowKeys(followingAuthors, call.args.userId, call.args.authorId)}
  ELSE IF call.op = "followSeries"
  THEN {followingSeries[k] :
          k \in SeriesFollowKeys(followingSeries, call.args.userId, call.args.seriesId)}
  ELSE IF call.op = "followCategory"
  THEN {followingCategories[k] :
          k \in CategoryFollowKeys(followingCategories, call.args.userId,
                                   call.args.category)}
  ELSE {}

\* C6: under any sequence of followAuthor, followSeries, followCategory and
\* their unfollow operations each following collection holds at most one row
\* for each (userId, target), and a follow call for a pair that has a row
\* returns that row (same id and followedAt) and changes nothing in the store.
C6_FollowOncePerPair ==
  /\ OneFollowPerPair
  /\ [][ /\ OneFollowPerPair'
         /\ ( (last' # last /\ FollowCallKeys(last') # {})
              => ( /\ FollowCallKeys(last') = {last'.ret}
                   /\ followVars' = followVars ) ) ]_vars

\* a follow call for a pair followed at an earlier time has returned
C6_Witness ==
  /\ last.op \in {"followAuthor", "followSeries", "followCategory"}
  /\ last.had
  /\ last.ret.followedAt < now
  /\ FollowsCreated = MaxFollows

\* --------------------------------------------------------------- claim C7
\* the rows of the pair an unfollow call names, in the following maps fa, fs, fc
UnfollowCallKeys(call, fa, fs, fc) ==
  IF call.op = "unfollowAuthor"
  THEN AuthorFollowKeys(fa, call.args.userId, call.args.authorId)
  ELSE IF call.op = "unfollowSeries"
  THEN SeriesFollowKeys(fs, call.args.userId, call.args.seriesId)
  ELSE CategoryFollowKeys(fc, call.args.userId, call.args.category)

\* the rows a DELETE /api/following request is about once its parameter is
\* read, in the following maps fa, fs, fc; Undefined when the parameter cannot
\* be read
DeleteRequestKeys(call, fa, fs, fc) ==
  IF call.op = "DELETE /api/following/authors/:authorId"
  THEN IF isNaN(parseInt(call.args.authorId)) THEN Undefined
       ELSE [keys |-> AuthorFollowKeys(fa, getUserByUsername("demo").id,
                                       parseInt(call.args.authorId).value)]
  ELSE IF call.op = "DELETE /api/following/series/:seriesId"
  THEN IF isNaN(parseInt(call.args.seriesId)) THEN Undefined
       ELSE [keys |-> SeriesFollowKeys(fs, getUserByUsername("demo").id,
                                       parseInt(call.args.seriesId).value)]
  ELSE IF call.op = "DELETE /api/following/categories/:category"
  THEN IF decodeURIComponent(call.args.category).threw THEN Undefined
       ELSE [keys |-> CategoryFollowKeys(fc, getUserByUsername("demo").id,
                                         decodeURIComponent(call.args.category).text)]
  ELSE Undefined

\* C7: unfollowAuthor, unfollowSeries and unfollowCategory delete the row of
\* (userId, target) when there is one, return true, and the isFollowing check
\* of the pair is false afterwards; when there is none they return false and
\* the store stays as it is, and the DELETE endpoint answers 404.
C7_Unfollow ==
  [][ /\ ( ( /\ last' # last
             /\ last'.op \in {"unfollowAuthor", "unfollowSeries", "unfollowCategory"} )
           => IF UnfollowCallKeys(last', followingAuthors, followingSeries,
                                  followingCategories) = {}
              THEN last'.ret = FALSE /\ followVars' = followVars
              ELSE /\ last'.ret = TRUE
                   /\ UnfollowCallKeys(last', followingAuthors', followingSeries',
                                       followingCategories') = {} )
      /\ ( ( /\ last' # last
             /\ DeleteRequestKeys(last', followingAuthors, followingSeries,
                                  followingCategories) # Undefined )
           => IF DeleteRequestKeys(last', followingAuthors, followingSeries,
                                   followingCategories).keys = {}
              THEN last'.ret.status = 404 /\ followVars' = followVars
              ELSE /\ last'.ret.status = 200
                   /\ DeleteRequestKeys(last', followingAuthors', followingSeries',
                                        followingCategories').keys = {} ) ]_vars

\* a DELETE request for a category unfollowed before has been answered 404
C7_Witness ==
  /\ last.op = "DELETE /api/following/categories/:category"
  /\ last.ret.status = 404
  /\ ~decodeURIComponent(last.args.category).threw
  /\ followingCategoryId > 1
  /\ followingCategories = EmptyMap

\* --------------------------------------------------------------- claim C4
\* C4: a run of checkForNewBooks that directly follows another run, the new
\* books and the preferences being the same for both, creates no notification:
\* the notifications after the second run are those after the first.
C4_SecondRunCreatesNothing ==
  [][ ( /\ last.op = "checkForNewBooks"
        /\ last'.op = "checkForNewBooks"
        /\ last'.ret.run = last.ret.run + 1 )
      => ( /\ books' = books
           /\ userPreferences' = userPreferences
           /\ notifications' = notifications
           /\ notificationId' = notificationId
           /\ last'.ret.created = 0 ) ]_vars

\* a second run in a row has ended, on an initialized service, with a new book
\* stored whose age range the preferences of user 1 name
C4_Witness ==
  /\ last.op = "checkForNewBooks"
  /\ last.ret.run = 2
  /\ serviceStorage = "set"
  /\ \E k \in DOMAIN books :
       /\ books[k].isNew
       /\ getUserPreferences(userPreferences, 1) # Undefined
       /\ getUserPreferences(userPreferences, 1).preferredAgeRanges = <<books[k].ageRange>>

\* --------------------------------------------------------------- claim C5
\* the state C5 starts from: no notifications, one user, whose preferences name
\* one age range and no category, and one book, new and of that age range
C5_Start ==
  /\ serviceStorage = "set"
  /\ notifications = EmptyMap
  /\ DOMAIN users = {1}
  /\ DOMAIN books = {1}
  /\ books[1].isNew
  /\ getUserPreferences(userPreferences, 1) # Undefined
  /\ getUserPreferences(userPreferences, 1).preferredAgeRanges = <<books[1].ageRange>>
  /\ getUserPreferences(userPreferences, 1).preferredCategories = <<>>

\* C5: from a store with no notifications, one user U with preferences
\* {preferredAgeRanges: [r], preferredCategories: []} and one book B with
\* ageRange r and isNew = true, one run of the matcher creates exactly one
\* notification, with userId = U.id and bookId = B.id.
C5_OneRunOneNotification ==
  [][ (C5_Start /\ last' # last /\ last'.op = "checkForNewBooks")
      => ( /\ DOMAIN notifications' = {notificationId}
           /\ notifications'[notificationId].userId = 1
           /\ notifications'[notificationId].bookId = 1 ) ]_vars

\* --------------------------------------------------------------- claim C8
\* at most one recently viewed row for each (userId, bookId)
OneViewPerPair ==
  \A j \in DOMAIN recentlyViewed, k \in DOMAIN recentlyViewed :
    ( /\ recentlyViewed[j].userId = recentlyViewed[k].userId
      /\ recentlyViewed[j].bookId = recentlyViewed[k].bookId ) => j = k

\* C8: under any sequence of addRecentlyViewed and clearRecentlyViewed calls the
\* recently viewed collection holds at most one row for each (userId, bookId),
\* and addRecentlyViewed for a pair that has a row keeps the row's id, creates
\* no row and sets the row's viewedAt to the time of the call.
C8_OneViewPerPair ==
  /\ OneViewPerPair
  /\ [][ /\ OneViewPerPair'
         /\ ( ( /\ last' # last
                /\ last'.op = "addRecentlyViewed"
                /\ ViewedKeys(recentlyViewed, last'.args.userId, last'.args.bookId) # {} )
              => ( /\ ViewedKeys(recentlyViewed', last'.args.userId, last'.args.bookId)
                        = ViewedKeys(recentlyViewed, last'.args.userId, last'.args.bookId)
                   /\ DOMAIN recentlyViewed' = DOMAIN recentlyViewed
                   /\ recentlyViewedId' = recentlyViewedId
                   /\ \A k \in ViewedKeys(recentlyViewed', last'.args.userId,
                                          last'.args.bookId) :
                        /\ recentlyViewed'[k].viewedAt = now
                        /\ recentlyViewed'[k] = last'.ret
                        /\ recentlyViewed'[k].id = k ) ) ]_vars

\* a book viewed before has been viewed again at a later time, other rows
\* being stored
C8_Witness ==
  /\ last.op = "addRecentlyViewed"
  /\ last.had
  /\ last.ret.viewedAt = now
  /\ now > 0
  /\ \E k \in DOMAIN recentlyViewed : recentlyViewed[k].viewedAt < now
  /\ recentlyViewed[last.ret.id] = last.ret

\* --------------------------------------------------------------- claim C9
\* C9: directly after every createUser call, getUserPreferences of the created
\* user's id returns a row with that userId, empty preferredCategories, empty
\* preferredAgeRanges and notificationsEnabled = true.
C9_NewUserDefaultPreferences ==
  [][ (last' # last /\ last'.op = "createUser")
      => ( /\ getUserPreferences(userPreferences', last'.ret.id) # Undefined
           /\ getUserPreferences(userPreferences', last'.ret.id).userId = last'.ret.id
           /\ getUserPreferences(userPreferences', last'.ret.id).preferredCategories = <<>>
           /\ getUserPreferences(userPreferences', last'.ret.id).preferredAgeRanges = <<>>
           /\ getUserPreferences(userPreferences', last'.ret.id).notificationsEnabled
                = TRUE ) ]_vars

\* -------------------------------------------------------------- claim C10
\* C10: under any sequence of GET /api/books/search requests handled one at a
\* time, whatever lists the external source returns (a googleId repeated within
\* one response or across responses included), no two stored books have the
\* same googleId.
C10_UniqueGoogleId ==
  \A j \in DOMAIN books, k \in DOMAIN books :
    books[j].googleId = books[k].googleId => j = k

\* a request has stored one record of a response and skipped another, whose
\* googleId was stored already
C10_Witness ==
  /\ last.op = "GET /api/books/search"
  /\ last.ret.asked
  /\ last.ret.offered = MaxExt
  /\ last.ret.saved > 0
  /\ last.ret.saved < last.ret.offered
  /\ Cardinality(DOMAIN books) >= 2

\* -------------------------------------------------------------- claim C11
\* every collection of the store with the counter its ids come from
Collections ==
  <<[rows |-> users, next |-> userId],
    [rows |-> books, next |-> bookId],
    [rows |-> userPreferences, next |-> userPreferencesId],
    [rows |-> favorites, next |-> favoriteId],
    [rows |-> notifications, next |-> notificationId],
    [rows |-> recentlyViewed, next |-> recentlyViewedId],
    [rows |-> authors, next |-> authorId],
    [rows |-> bookSeries, next |-> bookSeriesId],
    [rows |-> followingAuthors, next |-> followingAuthorId],
    [rows |-> followingSeries, next |-> followingSeriesId],
    [rows |-> followingCategories, next |-> followingCategoryId]>>

\* every row is stored under its id, and every id is at least 1 and below the
\* next id of its collection
IdsBelowNext(collection) ==
  \A k \in DOMAIN collection.rows :
    collection.rows[k].id = k /\ 1 <= k /\ k < collection.next

\* C11: for every entity type the ids that create operations assign start at 1
\* and grow strictly in creation order; no two rows of a type get the same id,
\* and an id released by removeFavorite, unfollow* or clearRecentlyViewed is
\* not assigned again.  (Every id ever assigned to a type is below the type's
\* counter, the counter never falls, and the rows that a step adds are exactly
\* those under the ids from the old counter up to the new one.)
C11_IdsGrow ==
  /\ \A i \in 1..Len(Collections) :
       /\ IdsBelowNext(Collections[i])
       /\ (Collections[i].rows = EmptyMap => Collections[i].next = 1)
  /\ [][ \A i \in 1..Len(Collections) :
           /\ IdsBelowNext(Collections'[i])
           /\ Collections'[i].next >= Collections[i].next
           /\ DOMAIN Collections'[i].rows \ DOMAIN Collections[i].rows
                = Collections[i].next .. (Collections'[i].next - 1) ]_vars

\* a favorite has been created after the first one was removed, while rows of
\* other types were created as well
C11_Witness ==
  /\ last.op = "addFavorite"
  /\ DOMAIN favorites = {2}
  /\ favoriteId = 3
  /\ Created = MaxCreated

\* --------------------------------------------------------- claims C12 to C14
\* the stored books that satisfy every filter given in the options
MatchesGiven(book, options) ==
  /\ "category" \in DOMAIN options
       => options.category \in {book.categories[i] : i \in 1..Len(book.categories)}
  /\ "ageRange" \in DOMAIN options => book.ageRange = options.ageRange
  /\ "isNew" \in DOMAIN options => book.isNew = options.isNew

Matching(options) == {k \in DOMAIN books : MatchesGiven(books[k], options)}

\* the place of the book k among the matching books in descending id order,
\* counted from 0
PlaceOf(k, options) == Cardinality({j \in Matching(options) : j > k})

\* the ids of a list are in strictly descending order
Descending(list) == \A i \in 1..Len(list), j \in 1..Len(list) : i < j => list[i] > list[j]

\* C12: for every filter and every limit >= 0, with or without an offset,
\* getBooks returns at most limit books, every returned book satisfies every
\* filter given, and the books are in strictly descending id order.
C12_GetBooksAtMostLimit ==
  (last.op = "getBooks" /\ "limit" \in DOMAIN last.args)
    => ( /\ Len(last.ret.books) <= last.args.limit
         /\ \A i \in 1..Len(last.ret.books) : last.ret.books[i] \in Matching(last.args)
         /\ Descending(last.ret.books) )

\* C13: given an offset >= 0 (0 included) and a limit >= 1, getBooks returns
\* exactly the elements at the places [offset, offset + limit) of the filtered
\* books in descending id order; given neither, it returns that whole list.
C13_GetBooksPage ==
  last.op = "getBooks"
    => ( /\ Descending(last.ret.books)
         /\ ( ( /\ "offset" \in DOMAIN last.args
                /\ "limit" \in DOMAIN last.args
                /\ last.args.limit >= 1 )
              => {last.ret.books[i] : i \in 1..Len(last.ret.books)}
                   = {k \in Matching(last.args) :
                        /\ PlaceOf(k, last.args) >= last.args.offset
                        /\ PlaceOf(k, last.args) < last.args.offset + last.args.limit} )
         /\ ( ("offset" \notin DOMAIN last.args /\ "limit" \notin DOMAIN last.args)
              => {last.ret.books[i] : i \in 1..Len(last.ret.books)}
                   = Matching(last.args) ) )

\* a page of one book at offset 1 has been returned, out of three books or more
C13_Witness ==
  /\ last.op = "getBooks"
  /\ "offset" \in DOMAIN last.args
  /\ "limit" \in DOMAIN last.args
  /\ last.args.offset = 1
  /\ last.args.limit = 1
  /\ Cardinality(Matching(last.args)) >= 3
  /\ Len(last.ret.books) = 1

\* C14: without pagination getBooks returns exactly the stored books that
\* satisfy all the filters given at once (the category is among the book's
\* categories, the age range is equal, isNew is equal), each once.
C14_GetBooksFilters ==
  ( /\ last.op = "getBooks"
    /\ "offset" \notin DOMAIN last.args
    /\ "limit" \notin DOMAIN last.args )
    => ( /\ {last.ret.books[i] : i \in 1..Len(last.ret.books)} = Matching(last.args)
         /\ Len(last.ret.books) = Cardinality(Matching(last.args)) )

\* three filters have been given, one book passes them all, and each of two
\* other books passes one of them but not all
C14_Witness ==
  /\ last.op = "getBooks"
  /\ DOMAIN last.args = {"category", "ageRange", "isNew"}
  /\ Len(last.ret.books) = 1
  /\ \E j \in DOMAIN books, k \in DOMAIN books :
       /\ j # k
       /\ {j, k} \cap Matching(last.args) = {}
       /\ books[j].ageRange = last.args.ageRange
       /\ last.args.category \in {books[k].categories[i] : i \in 1..Len(books[k].categories)}

\* -------------------------------------------------------------- claim C15
\* two characters are the same letter whatever their case: the case folding
\* of the letters used here (both small sigmas fold to the one sigma)
CaseFold(c) == IF c = SmallFinalSigma THEN SmallSigma ELSE LowerChar(c)

CaseFolded(str) == [i \in 1..Len(str) |-> CaseFold(str[i])]

\* the text contains the query as a substring, case ignored
ContainsIgnoringCase(text, query) ==
  \E i \in 0..(Len(text) - Len(query)) :
    \A j \in 1..Len(query) : CaseFold(text[i + j]) = CaseFold(query[j])

\* C15: searchBooks(query) returns exactly the stored books whose title,
\* author or description contains the query as a substring, case ignored, in
\* insertion order; a query that differs from it only in case returns the same.
C15_SearchIgnoresCase ==
  last.op = "searchBooks"
    => ( /\ {last.ret.books[i] : i \in 1..Len(last.ret.books)}
              = {k \in DOMAIN books :
                   \/ ContainsIgnoringCase(books[k].title, last.args.query)
                   \/ ContainsIgnoringCase(books[k].author, last.args.query)
                   \/ ContainsIgnoringCase(books[k].description, last.args.query)}
         /\ \A i \in 1..Len(last.ret.books), j \in 1..Len(last.ret.books) :
              i < j => last.ret.books[i] < last.ret.books[j]
         /\ \A query \in TextQueries :
              CaseFolded(query) = CaseFolded(last.args.query)
                => searchBooks(query) = last.ret.books )

\* -------------------------------------------------------------- claim C16
\* C16: every notification is created with isRead = false whatever the input
\* says, and a notification whose isRead is true is still stored with isRead
\* true after any step (markNotificationAsRead, markAllNotificationsAsRead,
\* createNotification, a matcher run).
C16_ReadIsOneWay ==
  [][ /\ \A id \in DOMAIN notifications' \ DOMAIN notifications :
           notifications'[id].isRead = FALSE
      /\ \A id \in DOMAIN notifications :
           notifications[id].isRead
             => (id \in DOMAIN notifications' /\ notifications'[id].isRead) ]_vars

\* a notification whose input said isRead: true has been created unread in a
\* store that holds a read notification
C16_Witness ==
  /\ last.op = "createNotification"
  /\ "isRead" \in DOMAIN last.args
  /\ last.args.isRead
  /\ last.ret.id \in DOMAIN notifications
  /\ ~notifications[last.ret.id].isRead
  /\ \E id \in DOMAIN notifications : notifications[id].isRead

\* -------------------------------------------------------------- claim C17
\* the collections and the id counters
StoreVars ==
  <<userVars, prefVars, bookVars, favVars, notifVars, viewVars, authorVars,
    seriesVars, followVars>>

\* the call that has just returned was addressed to an id or key that was not
\* stored when it was made
AddressedMissing ==
  \/ last'.op = "getUser" /\ last'.args.id \notin DOMAIN users
  \/ last'.op \in {"getBook", "updateBook"} /\ last'.args.id \notin DOMAIN books
  \/ last'.op = "getBookByGoogleId"
       /\ \A k \in DOMAIN books : books[k].googleId # last'.args.googleId
  \/ last'.op = "getAuthor" /\ last'.args.id \notin DOMAIN authors
  \/ last'.op = "getBookSeriesById" /\ last'.args.id \notin DOMAIN bookSeries
  \/ last'.op = "updateUserPreferences"
       /\ \A k \in DOMAIN userPreferences :
            userPreferences[k].userId # last'.args.userId
  \/ last'.op = "markNotificationAsRead" /\ last'.args.id \notin DOMAIN notifications

\* C17: a lookup or update addressed to an id or key that is not stored
\* (getUser, getBook, getBookByGoogleId, getAuthor, getBookSeriesById,
\* updateBook, updateUserPreferences, markNotificationAsRead) returns the
\* absent value and leaves every collection and every id counter unchanged.
C17_MissingIsAbsent ==
  [][ AddressedMissing => (last'.ret = Undefined /\ StoreVars' = StoreVars) ]_vars

\* updateBook has been called for an id that is not stored, in a store that
\* holds a book
C17_Witness ==
  /\ last.op = "updateBook"
  /\ last.args.id \notin DOMAIN books
  /\ last.ret = Undefined
  /\ books # EmptyMap

\* -------------------------------------------------------------- claim C18
\* no two rows of the map have the same name
UniqueNames(m) == \A j \in DOMAIN m, k \in DOMAIN m : m[j].name = m[k].name => j = k

\* C18: in every state reached from the seeded store by POST /api/authors and
\* POST /api/series requests handled one at a time, no two authors share a
\* name and no two series share a name; a POST with a name that is stored is
\* answered 400 and creates nothing.
C18_UniqueNames ==
  /\ [](UniqueNames(authors) /\ UniqueNames(bookSeries))
  /\ [][ /\ ( /\ last'.op = "POST /api/authors"
              /\ last'.args # InvalidBody
              /\ \E k \in DOMAIN authors : authors[k].name = last'.args.name )
            => ( /\ last'.ret.status = 400
                 /\ <<authorVars, seriesVars>>' = <<authorVars, seriesVars>> )
         /\ ( /\ last'.op = "POST /api/series"
              /\ last'.args # InvalidBody
              /\ \E k \in DOMAIN bookSeries : bookSeries[k].name = last'.args.name )
            => ( /\ last'.ret.status = 400
                 /\ <<authorVars, seriesVars>>' = <<authorVars, seriesVars>> ) ]_vars

\* a POST with the name of an author created by an earlier POST has been
\* answered 400
C18_Witness ==
  /\ last.op = "POST /api/authors"
  /\ last.args # InvalidBody
  /\ last.args.name = "Mo Willems"
  /\ last.ret.status = 400
  /\ Cardinality(DOMAIN authors) = SeedAuthors + 1

\* -------------------------------------------------------------- claim C19
\* the elements of a list
Elements(list) == {list[i] : i \in 1..Len(list)}

\* the book matches the preferences: the age ranges are empty or contain the
\* book's, or the categories are empty or share an element with the book's
MatchesPreferences(prefs, book) ==
  \/ prefs.preferredAgeRanges = <<>>
  \/ book.ageRange \in Elements(prefs.preferredAgeRanges)
  \/ prefs.preferredCategories = <<>>
  \/ Elements(prefs.preferredCategories) \cap Elements(book.categories) # {}

\* C19: in a matcher run a new book produces a notification for a user, when
\* none is stored for the two, exactly when the user's preferredAgeRanges is
\* empty or contains the book's ageRange, or the user's preferredCategories is
\* empty or shares an element with the book's categories; a book that matches
\* neither of two non-empty sets produces none.
C19_NotifiesExactlyMatches ==
  [][ (serviceStorage = "set" /\ last' # last /\ last'.op = "checkForNewBooks")
      => \A u \in DOMAIN users, b \in DOMAIN books :
           ( /\ books[b].isNew
             /\ getUserPreferences(userPreferences, u) # Undefined
             /\ \A k \in DOMAIN notifications :
                  ~(notifications[k].userId = u /\ notifications[k].bookId = b) )
             => ( (\E id \in DOMAIN notifications' \ DOMAIN notifications :
                     /\ notifications'[id].userId = u
                     /\ notifications'[id].bookId = b)
                  <=> MatchesPreferences(getUserPreferences(userPreferences, u),
                                         books[b]) ) ]_vars

\* -------------------------------------------------------------- claim C20
\* C20: POST /api/favorites requests for the same book that are handled at the
\* same time, their steps interleaved at the awaits, leave no two favorites
\* rows of the same (userId, bookId) once they have been answered.
C20_NoDuplicateFromRace ==
  (\A r \in 1..MaxRequests : requests[r].at \in {"idle", "responded"})
    => \A j \in DOMAIN favorites, k \in DOMAIN favorites :
         ( /\ favorites[j].userId = favorites[k].userId
           /\ favorites[j].bookId = favorites[k].bookId ) => j = k

\* -------------------------------------------------------------- claim C21
\* C21: GET /api/books/search requests that overlap, with external results
\* that hold the same googleId, their steps interleaved at the awaits (between
\* getBookByGoogleId and createBook too), leave no two stored books with the
\* same googleId once they have been answered.
C21_NoDuplicateFromSearchRace ==
  (\A r \in 1..MaxRequests : requests[r].at \in {"idle", "responded"})
    => \A j \in DOMAIN books, k \in DOMAIN books :
         books[j].googleId = books[k].googleId => j = k

\* -------------------------------------------------------------- claim C22
\* the rows of the collection that a call named op with the arguments args is
\* about
RowsOfCall(op, args) ==
  CASE op = "followAuthor" ->
         AuthorFollowKeys(followingAuthors, args.userId, args.authorId)
    [] op = "followSeries" ->
         SeriesFollowKeys(followingSeries, args.userId, args.seriesId)
    [] op = "followCategory" ->
         CategoryFollowKeys(followingCategories, args.userId, args.category)
    [] op = "addRecentlyViewed" -> ViewedKeys(recentlyViewed, args.userId, args.bookId)

\* C22: for followAuthor, followSeries, followCategory and addRecentlyViewed,
\* calls for the same (userId, target) that are in flight together, interleaved
\* at the awaits, leave exactly one row for the pair, while a call awaits its
\* result as after it has returned.
C22_ConcurrentCallsOneRow ==
  /\ \A r \in 1..MaxRequests :
       /\ requests[r].at = "followAuthor"
            => Cardinality(RowsOfCall("followAuthor", requests[r].followData)) = 1
       /\ requests[r].at \in {"followSeries", "followCategory", "addRecentlyViewed"}
            => Cardinality(RowsOfCall(requests[r].at, requests[r].args)) = 1
  /\ last.op \in {"followSeries", "followCategory", "addRecentlyViewed"}
       => Cardinality(RowsOfCall(last.op, last.args)) = 1
  /\ (last.op = "POST /api/following/authors" /\ last.ret.status = 201)
       => Cardinality(RowsOfCall("followAuthor",
                                 [userId |-> last.ret.body.userId,
                                  authorId |-> last.ret.body.authorId])) = 1

\* two requests await the result of followAuthor for the same pair, and one
\* row is stored
C22_Witness ==
  /\ requests[1].at = "followAuthor"
  /\ requests[2].at = "followAuthor"
  /\ requests[1].followData = requests[2].followData
  /\ Cardinality(DOMAIN followingAuthors) = 1

\* -------------------------------------------------------------- claim C23
\* C23: in no state that another handler or a scheduled job can observe does
\* a user exist in the users collection without a preferences row of that user
\* (createUser's two writes being atomic for every other operation).
C23_UserHasPreferences ==
  \A u \in DOMAIN users : \E k \in DOMAIN userPreferences : userPreferences[k].userId = u

\* -------------------------------------------------------------- claim C24
\* C24: after a matcher run over a store with a new book, every stored user
\* that has a preferences row has a notification for each new book that
\* matches the preferences, and the run creates none for a user without a
\* preferences row.
C24_EveryUserNotified ==
  [][ ( /\ serviceStorage = "set"
        /\ last' # last
        /\ last'.op = "checkForNewBooks"
        /\ \E b \in DOMAIN books : books[b].isNew )
      => \A u \in DOMAIN users :
           IF getUserPreferences(userPreferences, u) = Undefined
           THEN \A id \in DOMAIN notifications' \ DOMAIN notifications :
                  notifications'[id].userId # u
           ELSE \A b \in DOMAIN books :
                  ( /\ books[b].isNew
                    /\ MatchesPreferences(getUserPreferences(userPreferences, u),
                                          books[b]) )
                    => \E id \in DOMAIN notifications' :
                         /\ notifications'[id].userId = u
                         /\ notifications'[id].bookId = b ]_vars

\* -------------------------------------------------------------- claim C25
\* C25: a matcher run (checkForNewBooks) leaves the books collection as it
\* was, every isNew flag included, and a run over a store without a new book
\* leaves every collection and every id counter as it was.
C25_RunKeepsBooks ==
  [][ (last' # last /\ last'.op = "checkForNewBooks")
      => /\ books' = books
         /\ bookId' = bookId
         /\ (\A b \in DOMAIN books : ~books[b].isNew)
              => UNCHANGED <<userVars, prefVars, bookVars, favVars, notifVars,
                             viewVars, authorVars, seriesVars, followVars>> ]_vars

\* a run of an initialized service has ended over a store that holds a new book
C25_Witness ==
  /\ last.op = "checkForNewBooks"
  /\ serviceStorage = "set"
  /\ \E b \in DOMAIN books : books[b].isNew

C27_OtherFields(row) == [f \in DOMAIN row \ {"isRead"} |-> row[f]]

C27_MarkChangesOnlyIsRead ==
  [][ /\ DOMAIN notifications \subseteq DOMAIN notifications'
      /\ \A k \in DOMAIN notifications :
           C27_OtherFields(notifications'[k]) = C27_OtherFields(notifications[k])
      /\ last'.op = "markNotificationAsRead"
           => /\ DOMAIN notifications' = DOMAIN notifications
              /\ \A k \in DOMAIN notifications \ {last'.args.id} :
                   notifications'[k] = notifications[k]
      /\ last'.op = "markAllNotificationsAsRead"
           => /\ DOMAIN notifications' = DOMAIN notifications
              /\ \A k \in DOMAIN notifications :
                   notifications[k].userId # last'.args.userId
                     => notifications'[k] = notifications[k] ]_vars

\* markAllNotificationsAsRead has marked a user's notifications while an unread
\* notification of another user is stored
C27_Witness ==
  /\ last.op = "markAllNotificationsAsRead"
  /\ last.had
  /\ \E k \in DOMAIN notifications :
       notifications[k].userId = last.args.userId /\ notifications[k].isRead
  /\ \E k \in DOMAIN notifications :
       notifications[k].userId # last.args.userId /\ ~notifications[k].isRead

\* -------------------------------------------------------------- claim C28
\* C28: GET /api/books/search asks the external source exactly when the local
\* search returns fewer than 5 books, and adds no book when it does not ask;
\* when the external call fails, the response has status 200 and is the list
\* of the local results, and the store's books are as they were.
C28_ExternalOnlyWhenFew ==
  [][ (last'.op = "GET /api/books/search" /\ last'.args.query # <<>>)
      => LET found == searchBooks(last'.args.query)
         IN /\ last'.ret.asked <=> Len(found) < SupplementBelow
            /\ ~last'.ret.asked => (last'.ret.saved = 0 /\ UNCHANGED bookVars)
            /\ last'.ret.threw
                 => /\ last'.ret.status = 200
                    /\ last'.ret.body = [i \in 1..Len(found) |-> books[found[i]]]
                    /\ UNCHANGED bookVars ]_vars

\* the external call has failed for a search that found a local book
C28_Witness ==
  /\ last.op = "GET /api/books/search"
  /\ last.ret.threw
  /\ last.ret.status = 200
  /\ Len(last.ret.body) > 0

\* -------------------------------------------------------------- claim C29
\* C29: getRecentlyViewed(userId, limit) returns at most limit books (10
\* without a limit), each of them viewed by the user, in descending order of
\* viewedAt; and directly after addRecentlyViewed(userId, b) for a stored book
\* b, the first element of getRecentlyViewed(userId) is b.
C29_ViewedAt(uid, book) ==
  recentlyViewed[CHOOSE k \in DOMAIN recentlyViewed :
                   recentlyViewed[k].userId = uid /\ recentlyViewed[k].bookId = book.id
                ].viewedAt

C29_ReadIsRight ==
  last.op = "getRecentlyViewed"
    => LET uid == last.args.userId
           result == last.ret.books
       IN /\ Len(result) <= last.args.limit
          /\ \A i \in 1..Len(result) :
               ViewedKeys(recentlyViewed, uid, result[i].id) # {}
          /\ \A i \in 1..Len(result) : \A j \in i..Len(result) :
               C29_ViewedAt(uid, result[i]) >= C29_ViewedAt(uid, result[j])

C29_LastViewedIsFirst ==
  /\ C29_ReadIsRight
  /\ (last.op = "addRecentlyViewed" /\ last.args.bookId \in DOMAIN books)
       => /\ getRecentlyViewed(last.args.userId, <<>>) # <<>>
          /\ getRecentlyViewed(last.args.userId, <<>>)[1].id = last.args.bookId

C31_MatchesBoth(prefs, book) ==
  /\ \/ prefs.preferredCategories = <<>>
     \/ Elements(prefs.preferredCategories) \cap Elements(book.categories) # {}
  /\ \/ prefs.preferredAgeRanges = <<>>
     \/ book.ageRange \in Elements(prefs.preferredAgeRanges)

\* C31: in the 3-hourly job a book's isNew flag goes from false to true only
\* in the callback that has created a notification for that book in the same
\* run, and a notification is created only for a picked book that matches the
\* preferred categories and the preferred age ranges the job read for the user.
C31_JobFlagsOnlyNotified ==
  [][ /\ \A b \in DOMAIN books :
           (~books[b].isNew /\ books'[b].isNew)
             => \E r \in 1..MaxRequests :
                  /\ requests[r].at = "createNotification"
                  /\ requests[r].newBook.id = b
                  /\ \E k \in DOMAIN notifications :
                       /\ notifications[k].title = "New Book Release"
                       /\ notifications[k].userId = requests[r].user
                       /\ notifications[k].bookId = b
      /\ \A k \in DOMAIN notifications' \ DOMAIN notifications :
           \E r \in 1..MaxRequests :
             /\ requests[r].at = "getBooks"
             /\ requests[r].user = notifications'[k].userId
             /\ \E i \in 1..Len(requests[r].books) :
                  /\ requests[r].books[i].id = notifications'[k].bookId
                  /\ C31_MatchesBoth(requests[r].prefs, requests[r].books[i]) ]_vars

\* the job has set the isNew flag of a book that was not new
C31_Witness ==
  /\ last.op = "job: updateBook"
  /\ ~last.had
  /\ books[last.args.bookId].isNew
  /\ \E k \in DOMAIN notifications :
       /\ notifications[k].userId = last.args.userId
       /\ notifications[k].bookId = last.args.bookId

\* -------------------------------------------------------------- claim C32
\* C32: after any sequence of PUT /api/preferences requests with bodies the
\* schema accepts, the demo user has a preferences row: getUserPreferences of
\* the demo user's id finds a row, of that userId, and GET /api/preferences
\* does not answer 404.
C32_DemoKeepsPreferences ==
  LET demo == getUserByUsername("demo")
  IN /\ demo # Undefined
     /\ getUserPreferences(userPreferences, demo.id) # Undefined
     /\ getUserPreferences(userPreferences, demo.id).userId = demo.id

\* -------------------------------------------------------------- claim C33
\* C33: in every state reached by runs of the matcher and of the 3-hourly job
\* that do not overlap, no two notifications titled "New Book Release" have
\* the same userId and bookId.
C33_OneReleaseNotificationPerPair ==
  \A j, k \in DOMAIN notifications :
    ( /\ j # k
      /\ notifications[j].title = "New Book Release"
      /\ notifications[k].title = "New Book Release"
      /\ notifications[j].userId = notifications[k].userId )
      => notifications[j].bookId # notifications[k].bookId

C35_UnreadCounts ==
  /\ [](last.op = "getUnreadNotificationCount"
          => last.ret.value
               = Cardinality({k \in DOMAIN notifications :
                                /\ notifications[k].userId = last.args.userId
                                /\ notifications[k].isRead = FALSE}))
  /\ [][ last'.op = "markAllNotificationsAsRead"
         => /\ getUnreadNotificationCount(notifications', last'.args.userId) = 0
            /\ \A v \in Keys \ {last'.args.userId} :
                 getUnreadNotificationCount(notifications', v)
                   = getUnreadNotificationCount(notifications, v) ]_vars

\* markAllNotificationsAsRead has marked the unread notifications of a user
\* while another user has an unread one
C35_Witness ==
  /\ last.op = "markAllNotificationsAsRead"
  /\ last.had
  /\ getUnreadNotificationCount(notifications, last.args.userId) = 0
  /\ \E k \in DOMAIN notifications : notifications[k].userId = last.args.userId
  /\ \E v \in Keys \ {last.args.userId} : getUnreadNotificationCount(notifications, v) > 0

\* -------------------------------------------------------------- claim C36
\* the POST endpoints that create a row naming a book, an author or a series
C36_Posts ==
  {"POST /api/favorites", "POST /api/recently-viewed", "POST /api/following/authors",
   "POST /api/following/series"}

\* the request names a target that is not in the store
C36_MissingTarget(op, body) ==
  /\ body # InvalidBody
  /\ \/ op \in {"POST /api/favorites", "POST /api/recently-viewed"}
          /\ body.bookId \notin DOMAIN books
     \/ op = "POST /api/following/authors" /\ body.authorId \notin DOMAIN authors
     \/ op = "POST /api/following/series" /\ body.seriesId \notin DOMAIN bookSeries

\* C36: in every state each Favorite and RecentlyViewed row names a stored
\* book, each FollowingAuthor row a stored author and each FollowingSeries row
\* a stored series; a POST that names a missing target is answered 404, and a
\* POST answered 404 leaves every collection and every id counter as it was.
C36_RowsNameStoredTargets ==
  /\ [](/\ \A k \in DOMAIN favorites : favorites[k].bookId \in DOMAIN books
        /\ \A k \in DOMAIN recentlyViewed : recentlyViewed[k].bookId \in DOMAIN books
        /\ \A k \in DOMAIN followingAuthors :
             followingAuthors[k].authorId \in DOMAIN authors
        /\ \A k \in DOMAIN followingSeries :
             followingSeries[k].seriesId \in DOMAIN bookSeries)
  /\ [][ last'.op \in C36_Posts
         => /\ C36_MissingTarget(last'.op, last'.args) => last'.ret.status = 404
            /\ last'.ret.status = 404
                 => UNCHANGED <<userVars, prefVars, bookVars, favVars, notifVars,
                                viewVars, authorVars, seriesVars, followVars>> ]_vars

\* a POST naming a missing book has been answered 404 in a store that holds
\* rows of the other endpoints
C36_Witness ==
  /\ last.op = "POST /api/recently-viewed"
  /\ last.ret.status = 404
  /\ C36_MissingTarget(last.op, last.args)
  /\ favorites # EmptyMap
  /\ followingAuthors # EmptyMap
  /\ followingSeries # EmptyMap

====
